---- MODULE Spec2Model ----
(***************************************************************************)
(* State-machine model of the backtesting core of AlgorithmicTrading:     *)
(*   MomentumStrategy        (core/trading/strategy.py)                    *)
(*   RiskManager             (core/trading/risk_manager.py)                *)
(*   BacktestingEngine       (core/backtesting/engine.py)                  *)
(*   HistoricalDataProcessor (core/backtesting/data_processor.py)          *)
(*   Trade                   (models/trade.py)                             *)
(*   NotificationService     (services/notification.py)                    *)
(*                                                                         *)
(* Python floats are modelled by exact rationals [n, d] (d > 0, lowest     *)
(* terms); bar prices and percentages are integers.  Python indices are    *)
(* 0-based and kept as such; Row(data, i) reads data.iloc[i].              *)
(* Wall-clock time is counted in ticks of 12 hours; one handler call reads  *)
(* one value of the clock.                                                 *)
(*                                                                         *)
(* The specifications share the variables:                                 *)
(*   Spec        one run_backtest on a fresh engine                        *)
(*   SpecRisk    the RiskManager's public methods in any order             *)
(*   SpecGate    validate_trade and calculate_position_size as functions   *)
(*   SpecSignal  generate_signals and a scan of get_trade_signal           *)
(*   SpecExit    update_position and should_exit_position of the strategy  *)
(*   SpecRerun   run_backtest again and again on one engine, clock running *)
(*   SpecSearch  optimize_strategy on the endpoint's objects, clock running*)
(*   SpecConfig  one run_backtest under configurations of any kind         *)
(*   SpecCache   process_data of one processor on one cache directory      *)
(*   SpecCacheRace  process_data of two workers on one cache directory     *)
(*   SpecSteps   the pure steps of the processor, the drawdown metrics and *)
(*               the path from a raw frame to the strategy's signals       *)
(*   SpecCapital one run_backtest under fees, slippage and position sizes  *)
(*   SpecWindow  the RiskManager over a reset and the day after it         *)
(*   SpecCallers one RiskManager shared by two concurrent callers          *)
(*   SpecTunedSearch  optimize_strategy on an engine with a configured     *)
(*               strategy                                                  *)
(*   SpecNotify  send_notification again and again on one service, its     *)
(*               clock ticking in half minutes                             *)
(***************************************************************************)
EXTENDS Integers, Sequences, FiniteSets, TLC

VARIABLES
    \* ---- BacktestingEngine / run_backtest ----
    pc,                 \* position of run_backtest: idle, loop, after_loop, done, raised
    data,               \* the series passed to run_backtest (sequence of bars)
    signals_data,       \* generate_signals(data): per bar [signal, signal_change]
    i,                  \* loop index of run_backtest (0-based)
    current_position,   \* local current_position of run_backtest (a Trade or NoPosition)
    available_capital,  \* local available_capital (rational)
    equity_history,     \* local equity_history (sequence of rationals)
    equity_curve,       \* self.equity_curve: NoCurve or sequence of [t, v]
    trades,             \* self.trades
    results,            \* the BacktestResults returned, or NoResults
    calls,              \* the calls of the last loop iteration: set of [name, slot_open]
    opened,             \* how many Trade objects run_backtest has made its current_position
    sparams,            \* strategy.params (StrategyParameters)
    bparams,            \* engine.params (BacktestParameters)
    strategy_position,  \* strategy.current_position (snapshot or NoPosition)
    \* ---- RiskManager ----
    rparams,            \* risk_manager.params (RiskParameters)
    trade_history,      \* risk_manager.trade_history: sequence of [trade_id, timestamp, status]
    open_positions,     \* risk_manager.open_positions: function trade_id -> update
    daily_pnl,          \* risk_manager.daily_pnl (integer)
    last_reset,         \* risk_manager.last_reset (clock ticks)
    now,                \* datetime.now() in ticks of 12 hours
    last_call,          \* the last public call made on the components and what it returned
    intents,            \* what get_trade_signal returned at index 0, 1, ... of a scan
    search,             \* the frame of optimize_strategy: its locals and the trials it has run
    \* ---- HistoricalDataProcessor ----
    cache,              \* the files of config.cache_dir: function cache key -> file
    workers,            \* the process_data call of each worker: function worker -> frame
    \* ---- callers of one RiskManager ----
    callers,            \* each concurrent caller's position between its calls: caller -> frame
    \* ---- NotificationService ----
    notifier            \* message_history, notification_cache, the limits, and the messages Twilio accepted

vars == <<pc, data, signals_data, i, current_position, available_capital,
          equity_history, equity_curve, trades, results, calls, opened, sparams,
          bparams, strategy_position, rparams, trade_history, open_positions, daily_pnl,
          last_reset, now, last_call, intents, search, cache, workers, callers, notifier>>

engineVars == <<pc, data, signals_data, i, current_position, available_capital,
                equity_history, equity_curve, trades, results, calls, opened,
                sparams, bparams, strategy_position, search>>

riskVars == <<rparams, trade_history, open_positions, daily_pnl, last_reset>>

dataVars == <<cache, workers>>

----------------------------------------------------------------------------
(* Bounds of the model *)

\* longest series passed to run_backtest and to generate_signals
MaxBars == 4
\* latest tick the model lets the clock reach
MaxClock == 3
\* longest trade history to which update_position still appends
MaxUpdates == 3

----------------------------------------------------------------------------
(* Exact rational arithmetic standing in for Python floats *)

RECURSIVE Gcd(_, _)
Gcd(a, b) == IF b = 0 THEN a ELSE Gcd(b, a % b)

Abs(x) == IF x < 0 THEN -x ELSE x

Rat(n, d) ==
    LET s == IF d < 0 THEN -1 ELSE 1
        g == Gcd(Abs(n), Abs(d))
    IN  [n |-> (s * n) \div g, d |-> (s * d) \div g]

RInt(k) == [n |-> k, d |-> 1]
RAdd(a, b) == Rat(a.n * b.d + b.n * a.d, a.d * b.d)
RSub(a, b) == Rat(a.n * b.d - b.n * a.d, a.d * b.d)
RMul(a, b) ==
    LET g1 == Gcd(Abs(a.n), b.d)
        g2 == Gcd(Abs(b.n), a.d)
    IN  Rat((a.n \div g1) * (b.n \div g2), (a.d \div g2) * (b.d \div g1))
RDiv(a, b) == RMul(a, Rat(b.d, b.n))
RLt(a, b) == a.n * b.d < b.n * a.d
RLe(a, b) == a.n * b.d <= b.n * a.d
RAbs(a) == [n |-> Abs(a.n), d |-> a.d]
RFloor(a) == RInt(a.n \div a.d)
RZero == RInt(0)

RECURSIVE Pow(_, _)
Pow(b, e) == IF e = 0 THEN 1 ELSE b * Pow(b, e - 1)

----------------------------------------------------------------------------
(* Option values (Python None) *)

Null == [some |-> FALSE]
Some(x) == [some |-> TRUE, v |-> x]

NoPosition == [type |-> "none"]
NoSignal == [type |-> "none"]
NoCurve == [none |-> TRUE]
NoResults == [none |-> TRUE]
\* no optimize_strategy call has been made
NoSearch == [pc |-> "none"]

NoCall == [op |-> "none"]
NoData == [rows |-> <<>>, columns |-> {}]

\* data.iloc[index] for a 0-based Python index; the volume of a row is a rational,
\* its prices are whole numbers
Row(df, index) == df.rows[index + 1]

----------------------------------------------------------------------------
(* MomentumStrategy *)

\* prices.ewm(span=period, adjust=False).mean() at position index, as the
\* numerator of a fraction whose denominator is (period + 1)^index:
\*   y[0] = x[0],  y[t] = (1 - a) * y[t-1] + a * x[t],  a = 2 / (period + 1)
RECURSIVE calculate_ema(_, _, _)
calculate_ema(rows, period, index) ==
    IF index = 0
    THEN rows[1].close
    ELSE 2 * rows[index + 1].close * Pow(period + 1, index - 1)
         + (period - 1) * calculate_ema(rows, period, index - 1)

\* the signal column with equal averages counted as bullish
TrendSign_ties_bullish(rows, p, index) ==
    LET short == calculate_ema(rows, p.short_ema_period, index)
                    * Pow(p.long_ema_period + 1, index)
        long  == calculate_ema(rows, p.long_ema_period, index)
                    * Pow(p.short_ema_period + 1, index)
    IN  IF short >= long THEN 1 ELSE -1

\* df["signal"] at index: 1 where short_ema > long_ema, -1 where short_ema < long_ema
TrendSign(rows, p, index) ==
    LET short == calculate_ema(rows, p.short_ema_period, index)
                    * Pow(p.long_ema_period + 1, index)
        long  == calculate_ema(rows, p.long_ema_period, index)
                    * Pow(p.short_ema_period + 1, index)
    IN  IF short > long THEN 1 ELSE IF short < long THEN -1 ELSE 0

\* the signal column itself in place of its bar-to-bar difference
SignalDiff_level(rows, p, index) ==
    IF index = 0
    THEN [nan |-> TRUE, v |-> 0]
    ELSE [nan |-> FALSE, v |-> TrendSign(rows, p, index)]

\* df["signal"].diff() at index: NaN on the first row
SignalDiff(rows, p, index) ==
    IF index = 0
    THEN [nan |-> TRUE, v |-> 0]
    ELSE [nan |-> FALSE, v |-> TrendSign(rows, p, index) - TrendSign(rows, p, index - 1)]

generate_signals(df, p) ==
    [rows |-> [k \in 1..Len(df.rows) |->
                  [close |-> df.rows[k].close, high |-> df.rows[k].high,
                   low |-> df.rows[k].low, volume |-> df.rows[k].volume,
                   bid |-> df.rows[k].bid, ask |-> df.rows[k].ask,
                   signal |-> TrendSign(df.rows, p, k - 1),
                   signal_change |-> SignalDiff(df.rows, p, k - 1)]],
     columns |-> df.columns \cup {"short_ema", "long_ema", "signal", "signal_change"}]

\* float comparisons with a possibly-NaN value: every comparison with NaN is False
NanEq0(x) == ~x.nan /\ x.v = 0
NanGt0(x) == ~x.nan /\ x.v > 0
NanLt0(x) == ~x.nan /\ x.v < 0

\* (ask - bid) / bid * 100 > max_spread_pct on numpy floats: at bid 0.0 the
\* quotient is inf for ask > bid and NaN for ask = bid, and NaN > x is False
SpreadAbove(ask, bid, max_spread_pct) ==
    IF bid = 0
    THEN ask - bid > 0
    ELSE RLt(max_spread_pct, Rat((ask - bid) * 100, bid))

\* validate_trade_conditions without the spread check
validate_trade_conditions_volume_only(df, p, index) ==
    IF RLt(Row(df, index).volume, RInt(p.min_volume))
    THEN [ok |-> FALSE, reason |-> "Insufficient volume"]
    ELSE [ok |-> TRUE, reason |-> "Valid"]

\* MomentumStrategy.validate_trade_conditions
validate_trade_conditions(df, p, index) ==
    LET row == Row(df, index)
    IN  IF RLt(row.volume, RInt(p.min_volume))
        THEN [ok |-> FALSE, reason |-> "Insufficient volume"]
        ELSE IF "ask" \in df.columns /\ "bid" \in df.columns
                /\ SpreadAbove(row.ask, row.bid, p.max_spread_pct)
        THEN [ok |-> FALSE, reason |-> "Spread too high"]
        ELSE [ok |-> TRUE, reason |-> "Valid"]

\* row["close"] * (1 + sign * pct / 100)
PctOffset(close, sign, pct) == Rat(close * (100 + sign * pct), 100)

get_trade_signal(df, p, index) ==
    IF index < 1
    THEN NoSignal
    ELSE LET row == Row(df, index)
         IN  IF NanEq0(row.signal_change)
             THEN NoSignal
             ELSE IF ~validate_trade_conditions(df, p, index).ok
             THEN NoSignal
             ELSE LET signal_type ==
                          IF NanGt0(row.signal_change) THEN "buy"
                          ELSE IF NanLt0(row.signal_change) THEN "sell"
                          ELSE "none"
                  IN  IF signal_type # "none"
                      THEN [type |-> signal_type,
                            price |-> RInt(row.close),
                            timestamp |-> index,
                            take_profit |->
                                IF signal_type = "buy"
                                THEN PctOffset(row.close, 1, p.take_profit_pct)
                                ELSE PctOffset(row.close, -1, p.take_profit_pct),
                            stop_loss |->
                                IF signal_type = "buy"
                                THEN PctOffset(row.close, -1, p.stop_loss_pct)
                                ELSE PctOffset(row.close, 1, p.stop_loss_pct)]
                      ELSE NoSignal

\* should_exit_position with the take-profit test ahead of the stop-loss test
should_exit_position_target_first(df, index, position) ==
    IF position.type = "none"
    THEN [exit |-> FALSE, reason |-> "No position"]
    ELSE LET row == Row(df, index)
         IN  IF position.type = "buy" /\ RLe(position.take_profit, RInt(row.high))
             THEN [exit |-> TRUE, reason |-> "Take profit hit"]
             ELSE IF position.type = "buy" /\ RLe(RInt(row.low), position.stop_loss)
             THEN [exit |-> TRUE, reason |-> "Stop loss hit"]
             ELSE IF position.type # "buy" /\ RLe(RInt(row.low), position.take_profit)
             THEN [exit |-> TRUE, reason |-> "Take profit hit"]
             ELSE IF position.type # "buy" /\ RLe(position.stop_loss, RInt(row.high))
             THEN [exit |-> TRUE, reason |-> "Stop loss hit"]
             ELSE IF (position.type = "buy" /\ row.signal = -1)
                     \/ (position.type = "sell" /\ row.signal = 1)
             THEN [exit |-> TRUE, reason |-> "Signal reversal"]
             ELSE [exit |-> FALSE, reason |-> "Hold position"]

\* MomentumStrategy.should_exit_position on the snapshot the strategy holds
should_exit_position(df, index, position) ==
    IF position.type = "none"
    THEN [exit |-> FALSE, reason |-> "No position"]
    ELSE LET row == Row(df, index)
         IN  IF position.type = "buy" /\ RLe(RInt(row.low), position.stop_loss)
             THEN [exit |-> TRUE, reason |-> "Stop loss hit"]
             ELSE IF position.type = "buy" /\ RLe(position.take_profit, RInt(row.high))
             THEN [exit |-> TRUE, reason |-> "Take profit hit"]
             ELSE IF position.type # "buy" /\ RLe(position.stop_loss, RInt(row.high))
             THEN [exit |-> TRUE, reason |-> "Stop loss hit"]
             ELSE IF position.type # "buy" /\ RLe(RInt(row.low), position.take_profit)
             THEN [exit |-> TRUE, reason |-> "Take profit hit"]
             ELSE IF (position.type = "buy" /\ row.signal = -1)
                     \/ (position.type = "sell" /\ row.signal = 1)
             THEN [exit |-> TRUE, reason |-> "Signal reversal"]
             ELSE [exit |-> FALSE, reason |-> "Hold position"]


----------------------------------------------------------------------------
(* RiskManager *)

\* timedelta(days=1) in clock ticks: one tick of the model's clock is 12 hours
DayTicks == 2

\* the state of a RiskManager as one value
RiskState(h, o, pnl, lr) ==
    [trade_history |-> h, open_positions |-> o, daily_pnl |-> pnl, last_reset |-> lr]

\* self.trade_history filtered to the entries with timestamp > now - 1 day
RECURSIVE YoungerThanADay(_, _)
YoungerThanADay(h, t) ==
    IF h = <<>>
    THEN <<>>
    ELSE IF Head(h).timestamp > t - DayTicks
    THEN <<Head(h)>> \o YoungerThanADay(Tail(h), t)
    ELSE YoungerThanADay(Tail(h), t)

\* reset_daily_metrics firing already when exactly one day has passed
reset_daily_metrics_ge(rs, t) ==
    IF t - rs.last_reset >= DayTicks
    THEN RiskState(YoungerThanADay(rs.trade_history, t), rs.open_positions, 0, t)
    ELSE rs

\* RiskManager.reset_daily_metrics at clock value t
reset_daily_metrics(rs, t) ==
    IF t - rs.last_reset > DayTicks
    THEN RiskState(YoungerThanADay(rs.trade_history, t), rs.open_positions, 0, t)
    ELSE rs

\* validate_trade with the frequency limit compared by > instead of >=
TradeFrequencyExceeded_gt(rs, rp) == Len(rs.trade_history) > rp.max_trades_per_day

\* "len(self.trade_history) >= self.params.max_trades_per_day" (line 118)
TradeFrequencyExceeded(rs, rp) == Len(rs.trade_history) >= rp.max_trades_per_day

\* "risk > 0 and reward / risk < 1.5" (line 140)
RiskRewardInsufficient(risk, reward) ==
    RLt(RZero, risk) /\ RLt(RDiv(reward, risk), Rat(3, 2))

\* what validate_trade returns: the tuple (ok, reason), or the exception it raises
Returned(ok, reason) == [ok |-> ok, reason |-> reason, raised |-> FALSE]
Raised(exception) == [ok |-> FALSE, reason |-> exception, raised |-> TRUE]

\* the six checks of validate_trade, after the reset, on the gate state rs; the
\* arguments are floats as the signature declares, so "/ price" raises at price 0.0
validate_trade(rs, rp, size, price, stop_loss, take_profit) ==
    IF TradeFrequencyExceeded(rs, rp)
    THEN Returned(FALSE, "Maximum daily trades exceeded")
    ELSE IF Cardinality(DOMAIN rs.open_positions) >= rp.max_concurrent_trades
    THEN Returned(FALSE, "Maximum concurrent positions reached")
    ELSE IF RLt(RInt(rp.max_position_size), size)
    THEN Returned(FALSE, "Position size exceeds maximum allowed")
    ELSE IF RLt(size, RInt(rp.min_trade_size))
    THEN Returned(FALSE, "Position size below minimum allowed")
    ELSE IF price = RZero
    THEN Raised("ZeroDivisionError")
    ELSE IF RLt(RInt(rp.emergency_stop_loss),
                RAbs(RMul(RDiv(RSub(stop_loss, price), price), RInt(100))))
    THEN Returned(FALSE, "Stop loss exceeds maximum allowed")
    ELSE IF RiskRewardInsufficient(RAbs(RSub(price, stop_loss)),
                                   RAbs(RSub(take_profit, price)))
    THEN Returned(FALSE, "Insufficient risk/reward ratio")
    ELSE Returned(TRUE, "Trade validated")

\* position_update.get("realized_pnl", 0)
GetRealizedPnl(position_update) ==
    IF position_update.realized_pnl.some THEN position_update.realized_pnl.v ELSE 0

\* self.open_positions with trade_id deleted
DelKey(o, trade_id) == [k \in (DOMAIN o) \ {trade_id} |-> o[k]]

\* self.open_positions[trade_id] = position_update
SetKey(o, trade_id, position_update) ==
    [k \in (DOMAIN o) \cup {trade_id} |-> IF k = trade_id THEN position_update ELSE o[k]]

update_position(rs, trade_id, position_update, t) ==
    LET entry == [trade_id |-> trade_id,
                  timestamp |-> IF position_update.timestamp.some
                                THEN position_update.timestamp.v ELSE t,
                  status |-> position_update.status]
        h == Append(rs.trade_history, entry)
    IN  IF position_update.status = "closed"
        THEN IF trade_id \in DOMAIN rs.open_positions
             THEN RiskState(h, DelKey(rs.open_positions, trade_id),
                            rs.daily_pnl + GetRealizedPnl(position_update), rs.last_reset)
             ELSE RiskState(h, rs.open_positions, rs.daily_pnl, rs.last_reset)
        ELSE RiskState(h, SetKey(rs.open_positions, trade_id, position_update),
                       rs.daily_pnl, rs.last_reset)

\* sum(pos.get("size", 0) * pos.get("price", 0) for pos in self.open_positions.values())
RECURSIVE TotalExposure(_)
TotalExposure(o) ==
    IF DOMAIN o = {}
    THEN 0
    ELSE LET k == CHOOSE x \in DOMAIN o : TRUE
         IN  o[k].size * o[k].price + TotalExposure(DelKey(o, k))

\* the dictionary get_risk_metrics returns, read from the gate state after the reset
get_risk_metrics(rs, rp) ==
    [daily_pnl |-> rs.daily_pnl,
     open_positions |-> Cardinality(DOMAIN rs.open_positions),
     daily_trades |-> Len(rs.trade_history),
     total_exposure |-> TotalExposure(rs.open_positions),
     exposure_limit_remaining |-> rp.max_position_size - TotalExposure(rs.open_positions),
     trades_remaining_today |-> rp.max_trades_per_day - Len(rs.trade_history)]

\* self.exchange_client as check_risk_limits meets it: no client, or a client
\* whose get_market_volatility() raises or returns a volatility
NoClient == [client |-> FALSE]
ClientRaises == [client |-> TRUE, raises |-> TRUE]
ClientReturns(volatility) == [client |-> TRUE, raises |-> FALSE, volatility |-> volatility]

\* check_risk_limits with the volatility read outside the try block: the
\* client's exception leaves the method
check_risk_limits_uncaught(rs, rp, exchange_client) ==
    IF Abs(rs.daily_pnl) > rp.max_daily_drawdown
    THEN [ok |-> FALSE, reason |-> "Daily drawdown limit exceeded"]
    ELSE IF TotalExposure(rs.open_positions) > rp.max_position_size
    THEN [ok |-> FALSE, reason |-> "Total exposure limit exceeded"]
    ELSE IF exchange_client.client /\ exchange_client.raises
    THEN [ok |-> FALSE, reason |-> "Exception"]
    ELSE IF exchange_client.client /\ exchange_client.volatility > rp.volatility_threshold
    THEN [ok |-> FALSE, reason |-> "Market volatility too high"]
    ELSE [ok |-> TRUE, reason |-> "Within risk limits"]

\* check_risk_limits after the reset (lines 174-196): the drawdown, the exposure,
\* then, with a client, the volatility inside try/except Exception
check_risk_limits(rs, rp, exchange_client) ==
    IF Abs(rs.daily_pnl) > rp.max_daily_drawdown
    THEN [ok |-> FALSE, reason |-> "Daily drawdown limit exceeded"]
    ELSE IF TotalExposure(rs.open_positions) > rp.max_position_size
    THEN [ok |-> FALSE, reason |-> "Total exposure limit exceeded"]
    ELSE IF exchange_client.client /\ ~exchange_client.raises
            /\ exchange_client.volatility > rp.volatility_threshold
    THEN [ok |-> FALSE, reason |-> "Market volatility too high"]
    ELSE [ok |-> TRUE, reason |-> "Within risk limits"]

RMin(a, b) == IF RLt(a, b) THEN a ELSE b
RMax(a, b) == IF RLt(b, a) THEN a ELSE b

\* calculate_position_size without the 0.2 floor of the volatility scalar
calculate_position_size_no_floor(rp, capital, price, volatility) ==
    LET Sized(base_size) ==
            IF RLt(base_size, RInt(rp.min_trade_size))
            THEN RZero
            ELSE RMin(base_size, RInt(rp.max_position_size))
    IN  Sized(RMul(RMin(Rat(capital, 100), RInt(rp.max_position_size)),
                   RSub(RInt(1), Rat(volatility, rp.volatility_threshold))))

\* RiskManager.calculate_position_size (capital, volatility and the parameters
\* are integers; price is not read by the code)
calculate_position_size(rp, capital, price, volatility) ==
    LET Sized(base_size) ==
            IF RLt(base_size, RInt(rp.min_trade_size))
            THEN RZero
            ELSE RMin(base_size, RInt(rp.max_position_size))
    IN  Sized(RMul(RMin(Rat(capital, 100), RInt(rp.max_position_size)),
                   RMax(Rat(1, 5),
                        RSub(RInt(1), Rat(volatility, rp.volatility_threshold)))))

----------------------------------------------------------------------------
(* Trade (models/trade.py) *)

\* Trade(...) as _execute_trade constructs it
NewTrade(trade_type, entry_price, entry_time, size, stop_loss, take_profit, fees) ==
    [type |-> trade_type, status |-> "open", entry_price |-> entry_price,
     entry_time |-> entry_time, size |-> size, stop_loss |-> stop_loss,
     take_profit |-> take_profit, fees |-> fees,
     exit_price |-> Null, exit_time |-> Null, realized_pnl |-> Null]

\* close_trade without the sign change of the price difference for a sell
close_trade_unsigned(trade, exit_price, exit_time) ==
    [trade EXCEPT !.exit_price = Some(exit_price),
                  !.exit_time = Some(exit_time),
                  !.status = "closed",
                  !.realized_pnl = Some(RSub(RMul(RSub(exit_price, trade.entry_price),
                                                  trade.size), trade.fees))]

\* Trade.close_trade
close_trade(trade, exit_price, exit_time) ==
    LET diff == RSub(exit_price, trade.entry_price)
        price_diff == IF trade.type = "sell" THEN RSub(RZero, diff) ELSE diff
    IN  [trade EXCEPT !.exit_price = Some(exit_price),
                      !.exit_time = Some(exit_time),
                      !.status = "closed",
                      !.realized_pnl = Some(RSub(RMul(price_diff, trade.size), trade.fees))]

----------------------------------------------------------------------------
(* BacktestingEngine *)

\* _apply_slippage with the multipliers of buys and sells exchanged
apply_slippage_favourable(bp, price, trade_type) ==
    IF ~bp.include_slippage
    THEN price
    ELSE RMul(price, IF trade_type = "buy"
                     THEN RSub(RInt(1), bp.slippage)
                     ELSE RAdd(RInt(1), bp.slippage))

\* BacktestingEngine._apply_slippage
apply_slippage(bp, price, trade_type) ==
    IF ~bp.include_slippage
    THEN price
    ELSE RMul(price, IF trade_type = "buy"
                     THEN RAdd(RInt(1), bp.slippage)
                     ELSE RSub(RInt(1), bp.slippage))

\* _calculate_position_size that leaves the size as it is when fees are enabled
engine_position_size_fee_not_reserved(bp, sp, capital, price, trade_type) ==
    LET Sized(adjusted_price, base) ==
            [position_size |-> IF bp.enable_fractional THEN base ELSE RFloor(base),
             adjusted_price |-> adjusted_price]
        Priced(adjusted_price) ==
            Sized(adjusted_price,
                  RDiv(RMul(capital, Rat(sp.position_size_pct, 100)), adjusted_price))
    IN  Priced(apply_slippage(bp, price, trade_type))

\* BacktestingEngine._calculate_position_size
engine_position_size(bp, sp, capital, price, trade_type) ==
    LET Sized(adjusted_price, base) ==
            [position_size |->
                 IF bp.enable_fractional
                 THEN (IF bp.include_fees
                       THEN RSub(base, RDiv(RMul(RMul(base, adjusted_price),
                                                 bp.trading_fees), adjusted_price))
                       ELSE base)
                 ELSE RFloor(IF bp.include_fees
                             THEN RSub(base, RDiv(RMul(RMul(base, adjusted_price),
                                                       bp.trading_fees), adjusted_price))
                             ELSE base),
             adjusted_price |-> adjusted_price]
        Priced(adjusted_price) ==
            Sized(adjusted_price,
                  RDiv(RMul(capital, Rat(sp.position_size_pct, 100)), adjusted_price))
    IN  Priced(apply_slippage(bp, price, trade_type))

\* BacktestingEngine._execute_trade
execute_trade(bp, sp, trade_type, price, timestamp, capital) ==
    LET Build(ps) ==
            IF RLe(ps.position_size, RZero)
            THEN NoPosition
            ELSE NewTrade(trade_type, ps.adjusted_price, timestamp, ps.position_size,
                          sp.stop_loss_pct, sp.take_profit_pct,
                          IF bp.include_fees
                          THEN RMul(RMul(ps.position_size, ps.adjusted_price),
                                    bp.trading_fees)
                          ELSE RZero)
    IN  Build(engine_position_size(bp, sp, capital, price, trade_type))

\* self.equity_curve[timestamp] = current_equity on an existing Series
RECURSIVE SetItem(_, _, _)
SetItem(curve, timestamp, value) ==
    IF curve = <<>>
    THEN <<[t |-> timestamp, v |-> value]>>
    ELSE IF Head(curve).t = timestamp
    THEN <<[t |-> timestamp, v |-> value]>> \o Tail(curve)
    ELSE <<Head(curve)>> \o SetItem(Tail(curve), timestamp, value)

\* BacktestingEngine._update_equity_curve: pd.Series(values, index=[timestamp])
\* raises ValueError unless values holds exactly one value
update_equity_curve(history, curve, timestamp, current_equity) ==
    LET h == Append(history, current_equity)
    IN  IF curve = NoCurve
        THEN IF Len(h) = 1
             THEN [raised |-> FALSE, equity_history |-> h,
                   equity_curve |-> <<[t |-> timestamp, v |-> h[1]]>>]
             ELSE [raised |-> TRUE, equity_history |-> h, equity_curve |-> curve]
        ELSE [raised |-> FALSE, equity_history |-> h,
              equity_curve |-> SetItem(curve, timestamp, current_equity)]

\* BacktestingEngine._calculate_metrics: "not self.equity_curve" is True for None
\* and raises ValueError for a pandas Series (its truth value is ambiguous)
EmptyMetrics == [k \in {} |-> 0]

calculate_metrics(curve, ledger) ==
    IF curve = NoCurve
    THEN [raised |-> FALSE, performance_metrics |-> EmptyMetrics,
          trade_metrics |-> EmptyMetrics, drawdown_metrics |-> EmptyMetrics]
    ELSE [raised |-> TRUE, performance_metrics |-> EmptyMetrics,
          trade_metrics |-> EmptyMetrics, drawdown_metrics |-> EmptyMetrics]

\* "sell" if current_position.type == "buy" else "buy"
ClosingSide(position) == IF position.type = "buy" THEN "sell" ELSE "buy"

\* size * close less the proportional fee (lines 300-304)
PositionValue(bp, cp, close) ==
    LET Net(gross) ==
            RSub(gross, IF bp.include_fees THEN RMul(gross, bp.trading_fees) ELSE RZero)
    IN  Net(RMul(cp.size, RInt(close)))

\* run_backtest, lines 298-324: mark to market, equity sample, exit check.
\* st holds the locals of run_backtest and the state of the objects it uses.
exit_phase(st, sd, bp, spos, index) ==
    LET Checked(cp, position_value, u, x) ==
            IF u.raised
            THEN [st EXCEPT !.pc = "raised", !.equity_history = u.equity_history]
            ELSE IF x.exit
            THEN [st EXCEPT !.equity_history = u.equity_history,
                            !.equity_curve = u.equity_curve,
                            !.calls = @ \cup {[name |-> "should_exit_position",
                                               slot_open |-> TRUE]},
                            !.available_capital = RAdd(@, position_value),
                            !.trades = Append(@,
                                close_trade(cp,
                                            apply_slippage(bp, RInt(Row(sd, index).close),
                                                           ClosingSide(cp)),
                                            index)),
                            !.current_position = NoPosition,
                            !.continued = TRUE]
            ELSE [st EXCEPT !.equity_history = u.equity_history,
                            !.equity_curve = u.equity_curve,
                            !.calls = @ \cup {[name |-> "should_exit_position",
                                               slot_open |-> TRUE]}]
        Marked(cp, position_value) ==
            Checked(cp, position_value,
                    update_equity_curve(st.equity_history, st.equity_curve, index,
                                        RAdd(st.available_capital, position_value)),
                    should_exit_position(sd, index, spos))
    IN  IF st.current_position.type = "none"
        THEN st
        ELSE Marked(st.current_position,
                    PositionValue(bp, st.current_position, Row(sd, index).close))

\* the call record of one call made while the slot is open or not
Call(name, st) == [name |-> name, slot_open |-> st.current_position.type # "none"]

\* size * entry_price plus the entry fee (lines 352-361)
EntryCost(bp, pos) ==
    LET Gross(cost) ==
            RAdd(cost, IF bp.include_fees THEN RMul(cost, bp.trading_fees) ELSE RZero)
    IN  Gross(RMul(pos.size, pos.entry_price))

\* run_backtest, lines 328-361: ask for a signal, validate it, execute it
try_enter(st, sd, sp, bp, rp, index, t) ==
    LET Executed(rs1, pos) ==
            IF pos.type = "none"
            THEN [st EXCEPT !.calls = {Call("get_trade_signal", st),
                                       Call("validate_trade", st),
                                       Call("_execute_trade", st)},
                            !.rs = rs1, !.current_position = pos]
            ELSE [st EXCEPT !.calls = {Call("get_trade_signal", st),
                                       Call("validate_trade", st),
                                       Call("_execute_trade", st)},
                            !.rs = rs1, !.current_position = pos,
                            !.opened = @ + 1,
                            !.available_capital = RSub(@, EntryCost(bp, pos))]
        Validated(trade_signal, rs1, v) ==
            IF ~v.ok
            THEN [st EXCEPT !.calls = {Call("get_trade_signal", st),
                                       Call("validate_trade", st)},
                            !.rs = rs1]
            ELSE Executed(rs1, execute_trade(bp, sp, trade_signal.type,
                                             trade_signal.price, index,
                                             st.available_capital))
        Reset(trade_signal, rs1) ==
            Validated(trade_signal, rs1,
                      validate_trade(rs1, rp,
                                     RMul(st.available_capital,
                                          Rat(sp.position_size_pct, 100)),
                                     trade_signal.price, trade_signal.stop_loss,
                                     trade_signal.take_profit))
        Signalled(trade_signal) ==
            IF trade_signal.type = "none"
            THEN [st EXCEPT !.calls = {Call("get_trade_signal", st)}]
            ELSE Reset(trade_signal, reset_daily_metrics(st.rs, t))
    IN  Signalled(get_trade_signal(sd, sp, index))

\* "if not current_position:" (line 327)
not_current_position(position) == position.type = "none"

\* loop_body that looks for a new trade signal on every bar, whatever the slot holds
loop_body_unguarded(st, sd, sp, bp, rp, spos, index, t) ==
    try_enter(st, sd, sp, bp, rp, index, t)

\* loop_body that looks for a new trade signal only while the risk manager's day
\* has not passed
loop_body_within_day(st, sd, sp, bp, rp, spos, index, t) ==
    LET Entry(a) ==
            IF a.pc = "raised" \/ a.continued
            THEN a
            ELSE IF not_current_position(a.current_position)
                    /\ t - a.rs.last_reset <= DayTicks
            THEN try_enter(a, sd, sp, bp, rp, index, t)
            ELSE a
    IN  Entry(exit_phase(st, sd, bp, spos, index))

\* one iteration of the loop of run_backtest (lines 293-361)
loop_body(st, sd, sp, bp, rp, spos, index, t) ==
    LET Entry(a) ==
            IF a.pc = "raised" \/ a.continued
            THEN a
            ELSE IF not_current_position(a.current_position)
            THEN try_enter(a, sd, sp, bp, rp, index, t)
            ELSE a
    IN  Entry(exit_phase(st, sd, bp, spos, index))

----------------------------------------------------------------------------
(* Inputs of the model *)

Prices == {10, 12}

\* a bar; a wide bar ranges 2 above and below its close, a thin bar has no volume
Bar(c, wide, thin) ==
    [close |-> c, high |-> IF wide THEN c + 2 ELSE c, low |-> IF wide THEN c - 2 ELSE c,
     volume |-> RInt(IF thin THEN 0 ELSE 1), bid |-> c, ask |-> c]

OHLCV == {"open", "high", "low", "close", "volume"}

\* the series of n bars with at most one wide bar and at most one thin bar
SeriesOfLen(n) ==
    {[rows |-> [k \in 1..n |-> Bar(closes[k], k = w, k = thin)], columns |-> OHLCV] :
        closes \in [1..n -> Prices], w \in 0..n, thin \in 0..n}

SeriesSet == UNION {SeriesOfLen(n) : n \in 0..MaxBars}

\* StrategyParameters: the second record fails the 1.5 reward:risk rule
StrategyParamSet ==
    {[short_ema_period |-> 1, long_ema_period |-> 3, take_profit_pct |-> tp,
      stop_loss_pct |-> 10, position_size_pct |-> 10, min_volume |-> 1,
      max_spread_pct |-> Rat(1, 2)] : tp \in {20, 10}}

\* BacktestParameters
BacktestParamSet ==
    {[initial_capital |-> cap, trading_fees |-> Rat(1, 100), slippage |-> Rat(1, 100),
      include_fees |-> on, include_slippage |-> on, enable_fractional |-> frac] :
        cap \in {100, 1000}, on \in BOOLEAN, frac \in BOOLEAN}

\* RiskParameters: the defaults of the dataclass, scaled down
RiskParamSet ==
    {[max_position_size |-> 1000, max_daily_drawdown |-> 5, max_trades_per_day |-> mt,
      max_concurrent_trades |-> 2, min_trade_size |-> 10, max_leverage |-> 1,
      emergency_stop_loss |-> 15, volatility_threshold |-> 30] : mt \in {2, 3}}

EmptyMap == [k \in {} |-> 0]

----------------------------------------------------------------------------
(* run_backtest as a state machine *)

\* BacktestingEngine(strategy, risk_manager, parameters) and MomentumStrategy(parameters)
\* right after construction
EngineConstructed(sp, bp) ==
    /\ pc = "idle"
    /\ data = NoData
    /\ signals_data = NoData
    /\ i = 0
    /\ current_position = NoPosition
    /\ available_capital = RZero
    /\ equity_history = <<>>
    /\ equity_curve = NoCurve
    /\ trades = <<>>
    /\ results = NoResults
    /\ calls = {}
    /\ opened = 0
    /\ sparams = sp
    /\ bparams = bp
    /\ strategy_position = NoPosition
    /\ intents = <<>>
    /\ search = NoSearch

\* the RiskManager is used by one thread of control: no concurrent caller
NoCallers == callers = EmptyMap

\* no NotificationService has been constructed
NoNotifier == [constructed |-> FALSE]

NotifierUnused == notifier = NoNotifier

\* no HistoricalDataProcessor has been constructed: no cache file, no worker
ProcessorUnused ==
    /\ cache = EmptyMap
    /\ workers = EmptyMap

\* RiskManager(parameters) right after construction at clock value t
RiskConstructed(rp, t) ==
    /\ rparams = rp
    /\ trade_history = <<>>
    /\ open_positions = EmptyMap
    /\ daily_pnl = 0
    /\ last_reset = t

Init ==
    /\ NoCallers
    /\ NotifierUnused
    /\ ProcessorUnused
    /\ \E sp \in StrategyParamSet, bp \in BacktestParamSet : EngineConstructed(sp, bp)
    /\ \E rp \in RiskParamSet : RiskConstructed(rp, 0)
    /\ now = 0
    /\ last_call = NoCall

\* run_backtest that keeps the ledger of the engine instead of emptying it
EnterRun_keeps_ledger(call, d, sp) ==
    /\ data' = d
    /\ signals_data' = generate_signals(d, sp)
    /\ trades' = trades
    /\ equity_curve' = NoCurve
    /\ current_position' = NoPosition
    /\ available_capital' = RInt(bparams.initial_capital)
    /\ equity_history' = <<RInt(bparams.initial_capital)>>
    /\ i' = 1
    /\ pc' = "loop"
    /\ calls' = {}
    /\ opened' = 0
    /\ results' = NoResults
    /\ last_call' = call
    /\ sparams' = sp
    /\ UNCHANGED <<bparams, strategy_position, riskVars, now, intents, dataVars, callers, notifier>>

\* run_backtest(data) on a strategy whose params are sp, lines 282-290: reset the
\* state, generate the signals; the caller has no results of this call until it
\* returns
EnterRun(call, d, sp) ==
    /\ data' = d
    /\ signals_data' = generate_signals(d, sp)
    /\ trades' = <<>>
    /\ equity_curve' = NoCurve
    /\ current_position' = NoPosition
    /\ available_capital' = RInt(bparams.initial_capital)
    /\ equity_history' = <<RInt(bparams.initial_capital)>>
    /\ i' = 1
    /\ pc' = "loop"
    /\ calls' = {}
    /\ opened' = 0
    /\ results' = NoResults
    /\ last_call' = call
    /\ sparams' = sp
    /\ UNCHANGED <<bparams, strategy_position, riskVars, now, intents, dataVars, callers, notifier>>

\* the first run_backtest on a fresh engine
RunStart ==
    /\ pc = "idle"
    /\ search.pc = "none"
    /\ \E d \in SeriesSet : EnterRun([op |-> "run_backtest"], d, sparams)
    /\ UNCHANGED search

\* one iteration of "for i in range(1, len(signals_data))"
LoopBar ==
    /\ pc = "loop"
    /\ i < Len(signals_data.rows)
    /\ \E r \in {loop_body([pc |-> pc, current_position |-> current_position,
                            available_capital |-> available_capital,
                            equity_history |-> equity_history,
                            equity_curve |-> equity_curve,
                            trades |-> trades, calls |-> {}, continued |-> FALSE,
                            opened |-> opened,
                            rs |-> RiskState(trade_history, open_positions,
                                             daily_pnl, last_reset)],
                           signals_data, sparams, bparams, rparams,
                           strategy_position, i, now)} :
           /\ pc' = r.pc
           /\ i' = IF r.pc = "raised" THEN i ELSE i + 1
           /\ current_position' = r.current_position
           /\ available_capital' = r.available_capital
           /\ equity_history' = r.equity_history
           /\ equity_curve' = r.equity_curve
           /\ trades' = r.trades
           /\ calls' = r.calls
           /\ opened' = r.opened
           /\ trade_history' = r.rs.trade_history
           /\ open_positions' = r.rs.open_positions
           /\ daily_pnl' = r.rs.daily_pnl
           /\ last_reset' = r.rs.last_reset
    /\ UNCHANGED <<data, signals_data, results, sparams, bparams, strategy_position,
                   rparams, now, last_call, intents, search, dataVars, callers, notifier>>

\* close_remaining with the slippage of the position's own side
close_remaining_same_side(bp, sd, position) ==
    IF position.type = "none"
    THEN position
    ELSE close_trade(position,
                     apply_slippage(bp, RInt(Row(sd, Len(sd.rows) - 1).close),
                                    position.type),
                     Len(sd.rows) - 1)

\* lines 363-370: close any remaining position at the last bar
close_remaining(bp, sd, position) ==
    IF position.type = "none"
    THEN position
    ELSE close_trade(position,
                     apply_slippage(bp, RInt(Row(sd, Len(sd.rows) - 1).close),
                                    ClosingSide(position)),
                     Len(sd.rows) - 1)

\* run_backtest after the loop (lines 363-388): close what is left, compute the
\* metrics, return the results
AfterLoop ==
    /\ pc = "loop"
    /\ i >= Len(signals_data.rows)
    /\ \E closed \in {close_remaining(bparams, signals_data, current_position)} :
       \E ledger \in {IF closed.type = "none" THEN trades ELSE Append(trades, closed)} :
       \E m \in {calculate_metrics(equity_curve, ledger)} :
           /\ current_position' = closed
           /\ trades' = ledger
           /\ pc' = IF m.raised THEN "raised" ELSE "done"
           /\ results' = IF m.raised
                         THEN results
                         ELSE [trades |-> ledger, equity_curve |-> equity_curve,
                               performance_metrics |-> m.performance_metrics,
                               trade_metrics |-> m.trade_metrics,
                               drawdown_metrics |-> m.drawdown_metrics]
    /\ calls' = {}
    /\ UNCHANGED <<data, signals_data, i, available_capital, equity_history,
                   equity_curve, opened, sparams, bparams, strategy_position, riskVars,
                   now, last_call, intents, search, dataVars, callers, notifier>>

Next == RunStart \/ LoopBar \/ AfterLoop

Spec == Init /\ [][Next]_vars

----------------------------------------------------------------------------
(* Properties of run_backtest *)

IsOpen(position) == position.type # "none" /\ position.status = "open"

\* the stop price of an open position: the close of its entry bar offset by the
\* stop-loss percentage, below for a long and above for a short
StopPrice(sd, position) ==
    PctOffset(Row(sd, position.entry_time).close,
              IF position.type = "buy" THEN -1 ELSE 1, position.stop_loss)

StopBreached(sd, index, position) ==
    IF position.type = "buy"
    THEN RLe(RInt(Row(sd, index).low), StopPrice(sd, position))
    ELSE RLe(StopPrice(sd, position), RInt(Row(sd, index).high))

\* C1: whenever a position is open at the start of a bar that breaches its stop
\* price (the low for a long, the high for a short), the iteration of that bar
\* closes it: the ledger gains a closed trade whose exit_time is that bar and the
\* slot is FLAT afterwards.
C1_StopLossClosesOnBar ==
    [][(pc = "loop" /\ i < Len(signals_data.rows) /\ IsOpen(current_position)
        /\ StopBreached(signals_data, i, current_position))
       => (/\ current_position'.type = "none"
           /\ Len(trades') = Len(trades) + 1
           /\ trades'[Len(trades')].status = "closed"
           /\ trades'[Len(trades')].exit_time = Some(i))]_vars

EntryCalls == {"get_trade_signal", "validate_trade", "_execute_trade"}

\* C2: at every point of run_backtest at most one position is open: every Trade
\* the engine has opened is in the ledger except the one in the slot, and no
\* intent was requested, validated or executed while a position was open.
C2_SingleSlot ==
    /\ opened - Len(trades) = (IF IsOpen(current_position) THEN 1 ELSE 0)
    /\ \A c \in calls : c.name \in EntryCalls => ~c.slot_open

\* C2 witness: a position has just been opened, from a FLAT slot
C2_Witness ==
    /\ pc = "loop"
    /\ IsOpen(current_position)
    /\ [name |-> "_execute_trade", slot_open |-> FALSE] \in calls

\* the last bar's close with slippage against the holder of a position
ForcedExitPrice(bp, sd, position) ==
    LET close == Row(sd, Len(sd.rows) - 1).close
    IN  IF ~bp.include_slippage
        THEN RInt(close)
        ELSE IF position.type = "buy"
        THEN Rat(close * (bp.slippage.d - bp.slippage.n), bp.slippage.d)
        ELSE Rat(close * (bp.slippage.d + bp.slippage.n), bp.slippage.d)

\* C3: when run_backtest returns no position is left open: every trade of the
\* returned ledger is closed, with exit price and exit time set and
\* exit_time >= entry_time, and a position open after the last bar is closed at
\* the last bar's timestamp and at its close with slippage against the holder.
C3_ReturnsFlat ==
    pc = "done" =>
        /\ results.trades = trades
        /\ Len(trades) = opened
        /\ \A k \in 1..Len(trades) :
              /\ trades[k].status = "closed"
              /\ trades[k].exit_price.some
              /\ trades[k].exit_time.some
              /\ trades[k].exit_time.v >= trades[k].entry_time
        /\ current_position.type # "none" =>
              /\ current_position = trades[Len(trades)]
              /\ current_position.exit_time = Some(Len(signals_data.rows) - 1)
              /\ current_position.exit_price
                     = Some(ForcedExitPrice(bparams, signals_data, current_position))
              /\ IF current_position.type = "buy"
                 THEN RLe(current_position.exit_price.v,
                          RInt(Row(signals_data, Len(signals_data.rows) - 1).close))
                 ELSE RLe(RInt(Row(signals_data, Len(signals_data.rows) - 1).close),
                          current_position.exit_price.v)

\* C3 witness: run_backtest returned after closing a long position left open,
\* with slippage enabled
C3_Witness ==
    /\ pc = "done"
    /\ Len(results.trades) = 1
    /\ results.trades[1].type = "buy"
    /\ bparams.include_slippage

----------------------------------------------------------------------------
(* The RiskManager as a state machine: its public methods called in any order
   while the clock advances *)

TradeIds == {"t1", "t2"}

\* the dictionaries passed to update_position; a key the caller leaves out is Null
PositionUpdate(status, pnl, ts) ==
    [status |-> status, realized_pnl |-> pnl, size |-> 2, price |-> 100,
     timestamp |-> ts]

\* open updates (the second carries a timestamp key of its own), closed updates
\* with a gain, a loss and no realized_pnl key
PositionUpdates ==
    {PositionUpdate("open", Null, Null), PositionUpdate("open", Null, Some(0)),
     PositionUpdate("closed", Some(3), Null), PositionUpdate("closed", Some(-7), Null),
     PositionUpdate("closed", Null, Null)}

CurrentRiskState == RiskState(trade_history, open_positions, daily_pnl, last_reset)

\* the attributes of the RiskManager become those of rs
SetRiskState(rs) ==
    /\ trade_history' = rs.trade_history
    /\ open_positions' = rs.open_positions
    /\ daily_pnl' = rs.daily_pnl
    /\ last_reset' = rs.last_reset

\* datetime.now() moves on by 12 hours
Tick ==
    /\ now < MaxClock
    /\ now' = now + 1
    /\ UNCHANGED <<engineVars, sparams, bparams, strategy_position, riskVars, last_call, intents, dataVars, callers, notifier>>

\* risk_manager.validate_trade(trade_type, size, price, stop_loss, take_profit)
Validate(sizes, prices, stops, targets) ==
    \E size \in sizes, price \in prices, stop_loss \in stops, take_profit \in targets :
        \E rs \in {reset_daily_metrics(CurrentRiskState, now)} :
            /\ SetRiskState(rs)
            /\ last_call' = [op |-> "validate_trade", size |-> size, price |-> price,
                             stop_loss |-> stop_loss, take_profit |-> take_profit,
                             result |-> validate_trade(rs, rparams, RInt(size), RInt(price),
                                                       RInt(stop_loss), RInt(take_profit))]
            /\ UNCHANGED <<engineVars, sparams, bparams, strategy_position, rparams, now, intents, dataVars, callers, notifier>>

RiskValidate == Validate({100}, {100}, {90}, {115, 110})

\* risk_manager.update_position(trade_id, position_update)
RiskUpdatePosition ==
    /\ Len(trade_history) < MaxUpdates
    /\ \E trade_id \in TradeIds, position_update \in PositionUpdates :
        /\ SetRiskState(update_position(CurrentRiskState, trade_id, position_update, now))
        /\ last_call' = [op |-> "update_position", trade_id |-> trade_id,
                         position_update |-> position_update]
    /\ UNCHANGED <<engineVars, sparams, bparams, strategy_position, rparams, now, intents, dataVars, callers, notifier>>

\* risk_manager.get_risk_metrics()
RiskGetMetrics ==
    \E rs \in {reset_daily_metrics(CurrentRiskState, now)} :
        /\ SetRiskState(rs)
        /\ last_call' = [op |-> "get_risk_metrics", result |-> get_risk_metrics(rs, rparams)]
        /\ UNCHANGED <<engineVars, sparams, bparams, strategy_position, rparams, now, intents, dataVars, callers, notifier>>

\* the exchange client of the RiskManager at a call of check_risk_limits: none,
\* one that fails, one that returns a volatility under, at or over the threshold
ExchangeClients ==
    {NoClient, ClientRaises} \cup {ClientReturns(v) : v \in {10, 30, 31}}

\* risk_manager.check_risk_limits()
RiskCheckLimits ==
    \E rs \in {reset_daily_metrics(CurrentRiskState, now)}, exchange_client \in ExchangeClients :
        /\ SetRiskState(rs)
        /\ last_call' = [op |-> "check_risk_limits", exchange_client |-> exchange_client,
                         result |-> check_risk_limits(rs, rparams, exchange_client)]
        /\ UNCHANGED <<engineVars, sparams, bparams, strategy_position, rparams, now, intents, dataVars, callers, notifier>>

DefaultStrategyParams == CHOOSE sp \in StrategyParamSet : sp.take_profit_pct = 20

DefaultBacktestParams ==
    CHOOSE bp \in BacktestParamSet :
        bp.initial_capital = 1000 /\ bp.include_fees /\ bp.enable_fractional

InitRisk ==
    /\ NoCallers
    /\ NotifierUnused
    /\ ProcessorUnused
    /\ EngineConstructed(DefaultStrategyParams, DefaultBacktestParams)
    /\ \E rp \in RiskParamSet : RiskConstructed(rp, 0)
    /\ now = 0
    /\ last_call = NoCall

NextRisk == Tick \/ RiskValidate \/ RiskUpdatePosition \/ RiskGetMetrics \/ RiskCheckLimits

SpecRisk == InitRisk /\ [][NextRisk]_vars

----------------------------------------------------------------------------
(* validate_trade and calculate_position_size as functions of the gate state
   and their arguments *)

ValidateSizes == {5, 10, 1000, 2000}
ValidatePrices == {100, 0}
ValidateStops == {100, 90, 85, 84, 116}
ValidateTargets == {100, 110, 115, 125, 80}
Capitals == {0, 500, 1000, 5000, 200000}
Volatilities == {0, 10, 24, 30, 60}

\* trade histories of every length up to the bound
GateHistories ==
    {[k \in 1..n |-> [trade_id |-> "t1", timestamp |-> 0, status |-> "open"]] :
        n \in 0..MaxUpdates}

\* open-position maps over every set of trade ids
GateOpenMaps ==
    {[k \in ids |-> PositionUpdate("open", Null, Null)] : ids \in SUBSET TradeIds}

InitGate ==
    /\ NoCallers
    /\ NotifierUnused
    /\ ProcessorUnused
    /\ EngineConstructed(DefaultStrategyParams, DefaultBacktestParams)
    /\ rparams \in RiskParamSet
    /\ trade_history \in GateHistories
    /\ open_positions \in GateOpenMaps
    /\ daily_pnl = 0
    /\ last_reset = 0
    /\ now = 0
    /\ last_call = NoCall

GateValidate == Validate(ValidateSizes, ValidatePrices, ValidateStops, ValidateTargets)

\* risk_manager.calculate_position_size(capital, price, volatility)
GateSizePosition ==
    /\ \E capital \in Capitals, price \in ValidatePrices, volatility \in Volatilities :
        last_call' = [op |-> "calculate_position_size", capital |-> capital,
                      price |-> price, volatility |-> volatility,
                      result |-> calculate_position_size(rparams, capital, price, volatility)]
    /\ UNCHANGED <<engineVars, sparams, bparams, strategy_position, riskVars, now, intents, dataVars, callers, notifier>>

NextGate == GateValidate \/ GateSizePosition

SpecGate == InitGate /\ [][NextGate]_vars

----------------------------------------------------------------------------
(* Properties of the RiskManager *)

\* the number of the first of the six checks that fails for a history of count
\* entries and nopen open positions, 0 when none fails; all arguments are integers
FirstFailingCheck(count, nopen, rp, size, price, stop_loss, take_profit) ==
    IF count >= rp.max_trades_per_day THEN 1
    ELSE IF nopen >= rp.max_concurrent_trades THEN 2
    ELSE IF size > rp.max_position_size THEN 3
    ELSE IF size < rp.min_trade_size THEN 4
    ELSE IF Abs(stop_loss - price) * 100 > rp.emergency_stop_loss * price THEN 5
    ELSE IF 2 * Abs(take_profit - price) < 3 * Abs(price - stop_loss) THEN 6
    ELSE 0

CheckReason ==
    <<"Maximum daily trades exceeded", "Maximum concurrent positions reached",
      "Position size exceeds maximum allowed", "Position size below minimum allowed",
      "Stop loss exceeds maximum allowed", "Insufficient risk/reward ratio">>

\* the first failing check of the validate_trade call recorded in last_call
LastFirstFailing ==
    FirstFailingCheck(Len(trade_history), Cardinality(DOMAIN open_positions), rparams,
                      last_call.size, last_call.price, last_call.stop_loss,
                      last_call.take_profit)

\* C4: for every gate state and every (size, price, stop, target), validate_trade
\* returns accepted iff none of the six checks fails, and otherwise returns
\* rejected with the reason of the first failing check in the order frequency,
\* concurrency, size above maximum, size below minimum, stop distance,
\* reward:risk; an accepted trade has reward >= 1.5 x risk, also when the stop
\* equals the price
C4_FirstFailingCheckWins ==
    last_call.op = "validate_trade" =>
        /\ ~last_call.result.raised
        /\ last_call.result.ok <=> LastFirstFailing = 0
        /\ LastFirstFailing # 0 => last_call.result.reason = CheckReason[LastFirstFailing]
        /\ last_call.result.ok =>
               2 * Abs(last_call.take_profit - last_call.price)
                   >= 3 * Abs(last_call.price - last_call.stop_loss)

\* C5: validate_trade rejects once the trade history holds max_trades_per_day
\* entries, and accepts a trade passing the other five checks when it holds one less
C5_DailyTradeLimit ==
    last_call.op = "validate_trade" =>
        /\ Len(trade_history) >= rparams.max_trades_per_day => ~last_call.result.ok
        /\ (/\ Len(trade_history) = rparams.max_trades_per_day - 1
            /\ FirstFailingCheck(0, Cardinality(DOMAIN open_positions), rparams,
                                 last_call.size, last_call.price, last_call.stop_loss,
                                 last_call.take_profit) = 0)
               => last_call.result.ok

\* a trade accepted one entry below the limit, after position updates
C5_Witness ==
    /\ last_call.op = "validate_trade"
    /\ last_call.result.ok
    /\ Len(trade_history) = rparams.max_trades_per_day - 1
    /\ Len(trade_history) > 0

\* a step in which validate_trade, check_risk_limits or get_risk_metrics is called
IsCheckStep ==
    /\ last_call'.op \in {"validate_trade", "check_risk_limits", "get_risk_metrics"}
    /\ now' = now

\* the entries of the trade history less than a day old at the current clock
FreshEntries ==
    LET IsFresh(e) == now - e.timestamp < DayTicks
    IN  SelectSeq(trade_history, IsFresh)

\* C6: each of validate_trade, check_risk_limits and get_risk_metrics starts with
\* the daily reset: after more than a day since the last reset the daily P&L is 0,
\* exactly the history entries younger than a day remain and last_reset is now;
\* otherwise nothing changes; the open positions never change, and
\* get_risk_metrics reports the state it leaves
C6_ResetIfStale ==
    [][IsCheckStep =>
          /\ IF now - last_reset > DayTicks
             THEN /\ daily_pnl' = 0
                  /\ trade_history' = FreshEntries
                  /\ last_reset' = now
             ELSE /\ daily_pnl' = daily_pnl
                  /\ trade_history' = trade_history
                  /\ last_reset' = last_reset
          /\ open_positions' = open_positions
          /\ rparams' = rparams
          /\ last_call'.op = "get_risk_metrics" =>
                 /\ last_call'.result.daily_pnl = daily_pnl'
                 /\ last_call'.result.daily_trades = Len(trade_history')
                 /\ last_call'.result.open_positions = Cardinality(DOMAIN open_positions')
      ]_vars

\* get_risk_metrics has just run the reset and an entry younger than a day is left
C6_Witness ==
    /\ last_call.op = "get_risk_metrics"
    /\ now > DayTicks
    /\ last_reset = now
    /\ trade_history # <<>>

\* a step in which update_position is called
IsUpdateStep ==
    /\ last_call'.op = "update_position"
    /\ now' = now

\* C7: update_position with a closed update adds the update's realized P&L to the
\* daily P&L and leaves the id out of the open map, whether or not the id was in
\* the map; any other update is stored under the id; one history entry is appended
C7_ClosedUpdateBooksPnl ==
    [][IsUpdateStep =>
          /\ IF last_call'.position_update.status = "closed"
             THEN /\ daily_pnl' = daily_pnl + GetRealizedPnl(last_call'.position_update)
                  /\ last_call'.trade_id \notin DOMAIN open_positions'
             ELSE /\ last_call'.trade_id \in DOMAIN open_positions'
                  /\ open_positions'[last_call'.trade_id] = last_call'.position_update
          /\ Len(trade_history') = Len(trade_history) + 1
          /\ SubSeq(trade_history', 1, Len(trade_history)) = trade_history
      ]_vars

\* 1% of capital capped at the maximum, times the volatility scalar with its
\* floor of 0.2, as a fraction with denominator 500 * volatility_threshold
SizeNumerator(rp, capital, volatility) ==
    (IF capital < 100 * rp.max_position_size THEN capital ELSE 100 * rp.max_position_size)
    * (IF 5 * (rp.volatility_threshold - volatility) > rp.volatility_threshold
       THEN 5 * (rp.volatility_threshold - volatility) ELSE rp.volatility_threshold)

ExpectedSize(rp, capital, volatility) ==
    IF SizeNumerator(rp, capital, volatility)
           >= rp.min_trade_size * 500 * rp.volatility_threshold
    THEN Rat(SizeNumerator(rp, capital, volatility), 500 * rp.volatility_threshold)
    ELSE RZero

\* C8: calculate_position_size returns min(1% of capital, max_position_size) x
\* max(0.2, 1 - volatility/threshold) when that is at least min_trade_size and 0
\* otherwise; the result is 0 or within [min_trade_size, max_position_size], and a
\* higher volatility never gives a larger size
C8_SizePosition ==
    last_call.op = "calculate_position_size" =>
        /\ last_call.result = ExpectedSize(rparams, last_call.capital, last_call.volatility)
        /\ \/ last_call.result = RZero
           \/ /\ RLe(RInt(rparams.min_trade_size), last_call.result)
              /\ RLe(last_call.result, RInt(rparams.max_position_size))
        /\ \A v \in Volatilities :
               v >= last_call.volatility =>
                   RLe(calculate_position_size(rparams, last_call.capital,
                                               last_call.price, v),
                       last_call.result)

\* a non-zero size at a volatility of twice the threshold, where the floor applies
C8_Witness ==
    /\ last_call.op = "calculate_position_size"
    /\ last_call.volatility > rparams.volatility_threshold
    /\ last_call.result # RZero

----------------------------------------------------------------------------
(* The MomentumStrategy scanning a series: generate_signals, then get_trade_signal
   at index 0, 1, ... *)

\* the closes of the scanned series; a close of 0 is a non-negative float
SignalPrices == {0, 10, 12}

\* a bar of a series with quotes: ask one above bid on a bar with a spread
QuotedBar(c, spread, thin) ==
    [close |-> c, high |-> c, low |-> c, volume |-> RInt(IF thin THEN 0 ELSE 1),
     bid |-> c, ask |-> IF spread THEN c + 1 ELSE c]

\* the series of n bars, with or without bid/ask columns, with at most one bar
\* with a spread and at most one bar without volume
SignalSeriesOfLen(n) ==
    {[rows |-> [k \in 1..n |-> QuotedBar(closes[k], k = sp[2], k = thin)],
      columns |-> IF sp[1] THEN OHLCV \cup {"bid", "ask"} ELSE OHLCV] :
        closes \in [1..n -> SignalPrices],
        sp \in ({TRUE} \X (0..n)) \cup {<<FALSE, 0>>},
        thin \in 0..n}

SignalSeriesSet == UNION {SignalSeriesOfLen(n) : n \in 1..MaxBars}

\* StrategyParameters for the scan: a spread of 10% passes the second bound, also
\* when it equals it
SignalParamSet ==
    {[short_ema_period |-> short, long_ema_period |-> 3, take_profit_pct |-> 20,
      stop_loss_pct |-> 10, position_size_pct |-> 10, min_volume |-> 1,
      max_spread_pct |-> spread] : short \in {1, 2}, spread \in {Rat(1, 2), RInt(10)}}

DefaultRiskParams == CHOOSE rp \in RiskParamSet : rp.max_trades_per_day = 3

InitSignal ==
    /\ NoCallers
    /\ NotifierUnused
    /\ ProcessorUnused
    /\ \E sp \in SignalParamSet : EngineConstructed(sp, DefaultBacktestParams)
    /\ RiskConstructed(DefaultRiskParams, 0)
    /\ now = 0
    /\ last_call = NoCall

\* strategy.generate_signals(data)
SignalStart ==
    /\ signals_data = NoData
    /\ \E d \in SignalSeriesSet :
        /\ data' = d
        /\ signals_data' = generate_signals(d, sparams)
    /\ i' = 0
    /\ intents' = <<>>
    /\ last_call' = [op |-> "generate_signals"]
    /\ UNCHANGED <<pc, current_position, available_capital, equity_history, equity_curve,
                   trades, results, calls, opened, sparams, bparams, strategy_position,
                   riskVars, now, search, dataVars, callers, notifier>>

\* strategy.get_trade_signal(signals_data, i), then i + 1
SignalScan ==
    /\ signals_data # NoData
    /\ i < Len(signals_data.rows)
    /\ \E signal \in {get_trade_signal(signals_data, sparams, i)} :
        /\ intents' = Append(intents, signal)
        /\ last_call' = [op |-> "get_trade_signal", index |-> i, result |-> signal]
    /\ i' = i + 1
    /\ UNCHANGED <<pc, data, signals_data, current_position, available_capital,
                   equity_history, equity_curve, trades, results, calls, opened, sparams,
                   bparams, strategy_position, riskVars, now, search, dataVars, callers, notifier>>

NextSignal == SignalStart \/ SignalScan

SpecSignal == InitSignal /\ [][NextSignal]_vars

----------------------------------------------------------------------------
(* Properties of the MomentumStrategy *)

\* the bar fails the volume filter or, when both quote columns exist, the spread
\* filter: 100 * (ask - bid) / bid > max_spread_pct, cross-multiplied
FailsFilters(df, p, index) ==
    \/ Row(df, index).volume.n < p.min_volume * Row(df, index).volume.d
    \/ /\ {"bid", "ask"} \subseteq df.columns
       /\ 100 * (Row(df, index).ask - Row(df, index).bid) * p.max_spread_pct.d
              > p.max_spread_pct.n * Row(df, index).bid

\* no intent is due at index: first bar, zero flag or a failed filter
NoIntentDue(df, p, index) ==
    \/ index < 1
    \/ Row(df, index).signal_change.v = 0
    \/ FailsFilters(df, p, index)

\* the rational x equals close * (100 + pct) / 100
IsPctOf(x, close, pct) == x.n * 100 = close * (100 + pct) * x.d

\* the intent signal at a bar with flag and close: direction, reference price, and
\* stop and target at the configured percentages
IntentAt(signal, p, flag, close) ==
    /\ signal # NoSignal
    /\ signal.type = (IF flag > 0 THEN "buy" ELSE "sell")
    /\ signal.price = RInt(close)
    /\ IsPctOf(signal.stop_loss, close, IF flag > 0 THEN -p.stop_loss_pct ELSE p.stop_loss_pct)
    /\ IsPctOf(signal.take_profit, close,
               IF flag > 0 THEN p.take_profit_pct ELSE -p.take_profit_pct)

\* stop and target of the intent lie on opposite sides of its price
OppositeSides(signal) ==
    IF signal.type = "buy"
    THEN RLt(signal.stop_loss, signal.price) /\ RLt(signal.price, signal.take_profit)
    ELSE RLt(signal.take_profit, signal.price) /\ RLt(signal.price, signal.stop_loss)

\* C9: for every enriched series and index, get_trade_signal returns None at an
\* index below 1, at a zero crossover flag, at a volume below min_volume and at a
\* quoted spread above max_spread_pct; otherwise it returns a buy iff the flag is
\* positive (else a sell) at the bar's close, with stop and target on opposite
\* sides of the close at the configured percentages
C9_NextIntent ==
    last_call.op = "get_trade_signal" =>
        IF NoIntentDue(signals_data, sparams, last_call.index)
        THEN last_call.result = NoSignal
        ELSE /\ IntentAt(last_call.result, sparams,
                         Row(signals_data, last_call.index).signal_change.v,
                         Row(signals_data, last_call.index).close)
             /\ OppositeSides(last_call.result)

\* C9 (amended): as C9, but stop and target lie on opposite sides of the close
\* only at a positive close; at a close of 0 stop, price and target are all 0
C9_NextIntentPositiveClose ==
    last_call.op = "get_trade_signal" =>
        IF NoIntentDue(signals_data, sparams, last_call.index)
        THEN last_call.result = NoSignal
        ELSE /\ IntentAt(last_call.result, sparams,
                         Row(signals_data, last_call.index).signal_change.v,
                         Row(signals_data, last_call.index).close)
             /\ IF Row(signals_data, last_call.index).close > 0
                THEN OppositeSides(last_call.result)
                ELSE /\ last_call.result.stop_loss = last_call.result.price
                     /\ last_call.result.take_profit = last_call.result.price

\* a sell intent at a bar that closes at 0
C9_Witness ==
    /\ last_call.op = "get_trade_signal"
    /\ last_call.result # NoSignal
    /\ last_call.result.type = "sell"
    /\ Row(signals_data, last_call.index).close = 0

\* the indices at which the trend sign differs from the previous bar's
SignChanges(df) ==
    {k \in 1..(Len(df.rows) - 1) : Row(df, k).signal # Row(df, k - 1).signal}

\* the trend sign changes exactly once, to +1, and every bar passes the filters
SingleBullishCrossover(df, p) ==
    /\ Cardinality(SignChanges(df)) = 1
    /\ \A k \in SignChanges(df) : Row(df, k).signal = 1
    /\ \A k \in 0..(Len(df.rows) - 1) : ~FailsFilters(df, p, k)

ScanComplete == signals_data # NoData /\ i = Len(signals_data.rows)

\* C10: when the trend sign of a series changes exactly once, to +1, and all bars
\* pass the volume and spread filters, a scan of get_trade_signal over all indices
\* returns a buy at the crossover bar and None at every other index
C10_SingleCrossoverSingleIntent ==
    (ScanComplete /\ SingleBullishCrossover(signals_data, sparams)) =>
        \A k \in 0..(Len(signals_data.rows) - 1) :
            IF k \in SignChanges(signals_data)
            THEN intents[k + 1] # NoSignal /\ intents[k + 1].type = "buy"
            ELSE intents[k + 1] = NoSignal

\* a completed scan of a series that is flat before its one bullish crossover and
\* has bars after it
C10_Witness ==
    /\ ScanComplete
    /\ SingleBullishCrossover(signals_data, sparams)
    /\ SignChanges(signals_data) = {2}
    /\ Len(signals_data.rows) > 3

----------------------------------------------------------------------------
(* The MomentumStrategy asked for exit decisions: update_position sets the
   snapshot, should_exit_position reads it against a bar *)

\* the dictionary passed to strategy.update_position
Snapshot(type, stop_loss, take_profit) ==
    [type |-> type, price |-> RInt(10), stop_loss |-> RInt(stop_loss),
     take_profit |-> RInt(take_profit)]

\* long and short snapshots around an entry at 10; bars reach 8, 10, 12 and 14
Snapshots ==
    {Snapshot("buy", 8, 12), Snapshot("buy", 9, 13),
     Snapshot("sell", 12, 8), Snapshot("sell", 13, 9)}

InitExit ==
    /\ NoCallers
    /\ NotifierUnused
    /\ ProcessorUnused
    /\ EngineConstructed(DefaultStrategyParams, DefaultBacktestParams)
    /\ RiskConstructed(DefaultRiskParams, 0)
    /\ now = 0
    /\ last_call = NoCall

\* strategy.generate_signals(data)
ExitStart ==
    /\ signals_data = NoData
    /\ \E d \in SeriesSet :
        /\ Len(d.rows) > 0
        /\ data' = d
        /\ signals_data' = generate_signals(d, sparams)
    /\ last_call' = [op |-> "generate_signals"]
    /\ UNCHANGED <<pc, i, current_position, available_capital, equity_history,
                   equity_curve, trades, results, calls, opened, sparams, bparams,
                   strategy_position, riskVars, now, intents, search, dataVars, callers, notifier>>

\* strategy.update_position(position), position a snapshot or None
StrategyUpdatePosition ==
    /\ \E position \in Snapshots \cup {NoPosition} :
        /\ strategy_position' = position
        /\ last_call' = [op |-> "strategy.update_position", position |-> position]
    /\ UNCHANGED <<pc, data, signals_data, i, current_position, available_capital,
                   equity_history, equity_curve, trades, results, calls, opened, sparams,
                   bparams, riskVars, now, intents, search, dataVars, callers, notifier>>

\* strategy.should_exit_position(signals_data, index)
StrategyShouldExit ==
    /\ signals_data # NoData
    /\ \E index \in 0..(Len(signals_data.rows) - 1) :
        last_call' = [op |-> "should_exit_position", index |-> index,
                      result |-> should_exit_position(signals_data, index,
                                                      strategy_position)]
    /\ UNCHANGED <<engineVars, riskVars, now, intents, dataVars, callers, notifier>>

NextExit == ExitStart \/ StrategyUpdatePosition \/ StrategyShouldExit

SpecExit == InitExit /\ [][NextExit]_vars

\* the integer x is at most the rational r
IntLeRat(x, r) == x * r.d <= r.n
\* the integer x is at least the rational r
IntGeRat(x, r) == x * r.d >= r.n

\* the decision for a bar and a snapshot: stop first, then target, then a trend
\* sign against the position, else hold
ExpectedExit(row, position) ==
    IF position = NoPosition THEN <<FALSE, "No position">>
    ELSE IF position.type = "buy"
    THEN IF IntLeRat(row.low, position.stop_loss) THEN <<TRUE, "Stop loss hit">>
         ELSE IF IntGeRat(row.high, position.take_profit) THEN <<TRUE, "Take profit hit">>
         ELSE IF row.signal = -1 THEN <<TRUE, "Signal reversal">>
         ELSE <<FALSE, "Hold position">>
    ELSE IF IntGeRat(row.high, position.stop_loss) THEN <<TRUE, "Stop loss hit">>
         ELSE IF IntLeRat(row.low, position.take_profit) THEN <<TRUE, "Take profit hit">>
         ELSE IF row.signal = 1 THEN <<TRUE, "Signal reversal">>
         ELSE <<FALSE, "Hold position">>

\* C11: should_exit_position returns (False, "No position") without a snapshot;
\* with a long snapshot it reports the stop-loss if low <= stop, else the
\* take-profit if high >= target, else a signal reversal if the trend sign is -1,
\* else hold, so a bar breaching both reports the stop-loss; short is the mirror
\* image (high against stop, low against target, sign +1)
C11_ShouldExit ==
    last_call.op = "should_exit_position" =>
        <<last_call.result.exit, last_call.result.reason>>
            = ExpectedExit(Row(signals_data, last_call.index), strategy_position)

\* a bar that breaches both the stop and the target of a long snapshot
C11_Witness ==
    /\ last_call.op = "should_exit_position"
    /\ strategy_position # NoPosition
    /\ strategy_position.type = "buy"
    /\ IntLeRat(Row(signals_data, last_call.index).low, strategy_position.stop_loss)
    /\ IntGeRat(Row(signals_data, last_call.index).high, strategy_position.take_profit)
    /\ last_call.result.reason = "Stop loss hit"

----------------------------------------------------------------------------
(* Properties of the fills and the ledger of run_backtest *)

\* the trades run_backtest has made so far: the ledger and the slot
AllTrades ==
    {trades[k] : k \in 1..Len(trades)}
        \cup (IF current_position.type = "none" THEN {} ELSE {current_position})

\* close times (1 + s) for a buy and (1 - s) for a sell, the close itself when
\* slippage is disabled
FillPrice(bp, close, side) ==
    IF ~bp.include_slippage
    THEN Rat(close, 1)
    ELSE IF side = "buy"
    THEN Rat(close * (bp.slippage.d + bp.slippage.n), bp.slippage.d)
    ELSE Rat(close * (bp.slippage.d - bp.slippage.n), bp.slippage.d)

\* the fill is not better than the close for the side that trades
NotBetter(price, close, side) ==
    IF side = "buy" THEN RLe(RInt(close), price) ELSE RLe(price, RInt(close))

\* C12: with slippage enabled every buy fills at close x (1 + s) and every sell
\* at close x (1 - s), so entries and exits are never better than the bar's close
\* for the holder; with slippage disabled every fill equals the close; a trade
\* entered and exited at the same close never has a positive realized P&L
C12_SlippageNeverImproves ==
    \A t \in AllTrades :
        /\ t.entry_price = FillPrice(bparams, Row(signals_data, t.entry_time).close, t.type)
        /\ NotBetter(t.entry_price, Row(signals_data, t.entry_time).close, t.type)
        /\ t.status = "closed" =>
              /\ t.exit_price.v = FillPrice(bparams, Row(signals_data, t.exit_time.v).close,
                                            ClosingSide(t))
              /\ NotBetter(t.exit_price.v, Row(signals_data, t.exit_time.v).close,
                           ClosingSide(t))
              /\ Row(signals_data, t.exit_time.v).close
                     = Row(signals_data, t.entry_time).close
                 => RLe(t.realized_pnl.v, RZero)

\* a returned ledger with a short trade entered below and exited above its close
C12_Witness ==
    /\ pc = "done"
    /\ Len(trades) = 1
    /\ trades[1].type = "sell"
    /\ bparams.include_slippage
    /\ RLt(trades[1].entry_price, trades[1].exit_price.v)
    /\ RLt(trades[1].realized_pnl.v, RZero)

\* the price difference in the direction of the trade, times its size
SignedDifference(t) ==
    IF t.type = "buy"
    THEN RMul(RSub(t.exit_price.v, t.entry_price), t.size)
    ELSE RMul(RSub(t.entry_price, t.exit_price.v), t.size)

\* C13: a closed trade has status closed, its exit price and exit time recorded,
\* and realized P&L = (exit - entry) x size for a buy, (entry - exit) x size for a
\* sell, minus its accrued fees; without fees and slippage every ledger trade of
\* run_backtest has realized P&L = the signed difference of the closes x size
C13_CloseTrade ==
    \A k \in 1..Len(trades) :
        /\ trades[k].status = "closed"
        /\ trades[k].exit_price.some
        /\ trades[k].exit_time.some
        /\ trades[k].realized_pnl = Some(RSub(SignedDifference(trades[k]), trades[k].fees))
        /\ (~bparams.include_fees /\ ~bparams.include_slippage) =>
              /\ trades[k].fees = RZero
              /\ trades[k].realized_pnl.v
                     = RMul(RInt((IF trades[k].type = "buy" THEN 1 ELSE -1)
                                 * (Row(signals_data, trades[k].exit_time.v).close
                                    - Row(signals_data, trades[k].entry_time).close)),
                            trades[k].size)

\* a closed short trade in the ledger with fees accrued and a price difference
C13_Witness ==
    /\ Len(trades) = 1
    /\ trades[1].type = "sell"
    /\ trades[1].exit_price.v # trades[1].entry_price
    /\ RLt(RZero, trades[1].fees)

----------------------------------------------------------------------------
(* run_backtest as a function of its arguments and of the objects it uses, and
   an engine that is run again and again while the clock advances *)

\* the loop of run_backtest from bar index on, at clock value t
RECURSIVE run_loop(_, _, _, _, _, _, _, _)
run_loop(st, sd, sp, bp, rp, spos, index, t) ==
    IF st.pc = "raised" \/ index >= Len(sd.rows)
    THEN st
    ELSE run_loop(loop_body([st EXCEPT !.calls = {}, !.continued = FALSE],
                            sd, sp, bp, rp, spos, index, t),
                  sd, sp, bp, rp, spos, index + 1, t)

\* lines 363-388 on the locals st left by the loop: what run_backtest returns
finish_run(st, sd, bp) ==
    LET Returned3(ledger, m) ==
            IF m.raised
            THEN [raised |-> TRUE, results |-> NoResults, rs |-> st.rs]
            ELSE [raised |-> FALSE,
                  results |-> [trades |-> ledger, equity_curve |-> st.equity_curve,
                               performance_metrics |-> m.performance_metrics,
                               trade_metrics |-> m.trade_metrics,
                               drawdown_metrics |-> m.drawdown_metrics],
                  rs |-> st.rs]
        Measured(ledger) == Returned3(ledger, calculate_metrics(st.equity_curve, ledger))
        Closed(closed) ==
            Measured(IF closed.type = "none" THEN st.trades ELSE Append(st.trades, closed))
    IN  IF st.pc = "raised"
        THEN [raised |-> TRUE, results |-> NoResults, rs |-> st.rs]
        ELSE Closed(close_remaining(bp, sd, st.current_position))

\* BacktestingEngine.run_backtest(data) with strategy parameters sp, engine
\* parameters bp, a risk manager with parameters rp in state rs, a strategy
\* holding the snapshot spos, at clock value t
run_backtest(d, sp, bp, rp, rs, spos, t) ==
    LET Signalled(sd) ==
            finish_run(run_loop([pc |-> "loop", current_position |-> NoPosition,
                                 available_capital |-> RInt(bp.initial_capital),
                                 equity_history |-> <<RInt(bp.initial_capital)>>,
                                 equity_curve |-> NoCurve, trades |-> <<>>,
                                 calls |-> {}, continued |-> FALSE, opened |-> 0,
                                 rs |-> rs],
                                sd, sp, bp, rp, spos, 1, t),
                       sd, bp)
    IN  Signalled(generate_signals(d, sp))

\* the series of a later run: the series with neither a wide nor a thin bar
RerunSeries ==
    {d \in SeriesSet : \A k \in 1..Len(d.rows) : d.rows[k].high = d.rows[k].low /\ d.rows[k].volume = RInt(1)}

\* run_backtest on an engine that has run before: the earlier run returned or raised
Rerun ==
    /\ pc \in {"done", "raised"}
    /\ search.pc = "none"
    /\ \E d \in RerunSeries : EnterRun([op |-> "run_backtest", earlier |-> Len(trades)], d,
                                     sparams)
    /\ UNCHANGED search

\* BacktestParameters of the engine that is run again
RerunBacktestParams == {bp \in BacktestParamSet : bp.initial_capital = 1000 /\ bp.enable_fractional}

InitRerun ==
    /\ NoCallers
    /\ NotifierUnused
    /\ ProcessorUnused
    /\ \E sp \in StrategyParamSet, bp \in RerunBacktestParams : EngineConstructed(sp, bp)
    /\ RiskConstructed(DefaultRiskParams, 0)
    /\ now = 0
    /\ last_call = NoCall

NextRerun == RunStart \/ Rerun \/ LoopBar \/ AfterLoop \/ Tick

SpecRerun == InitRerun /\ [][NextRerun]_vars

\* run_backtest on a freshly constructed strategy, risk manager and engine with
\* the configuration of the model's engine, on the series of the current run
FreshRun ==
    run_backtest(data, sparams, bparams, rparams, RiskState(<<>>, EmptyMap, 0, now),
                 NoPosition, now)

\* the current run has ended as the run fresh has: same ledger, equity curve and
\* metrics, also as attributes of the engine
EndedAs(fresh) ==
    /\ pc = "raised" <=> fresh.raised
    /\ pc = "done" =>
          /\ results = fresh.results
          /\ trades = fresh.results.trades
          /\ equity_curve = fresh.results.equity_curve

\* C14: run_backtest resets all per-run state: on an engine that has completed
\* earlier runs it returns the ledger, equity curve and metrics that a fresh
\* engine with the same configuration returns for the same series
C14_RerunEqualsFreshRun ==
    (pc \in {"done", "raised"} /\ "earlier" \in DOMAIN last_call) => EndedAs(FreshRun)

\* a run that returned a trade on an engine whose earlier run had left a trade in
\* the ledger, after the risk manager's daily reset
C14_Witness ==
    /\ pc = "done"
    /\ "earlier" \in DOMAIN last_call
    /\ last_call.earlier = 1
    /\ Len(results.trades) = 1
    /\ last_reset > 0

----------------------------------------------------------------------------
(* Runs without a trade *)

\* the keys the endpoint reads from the three metric maps (backtesting.py, 111-116)
PerformanceMetricsRead == {"total_return", "sharpe_ratio"}
TradeMetricsRead == {"total_trades", "win_rate", "profit_factor"}
DrawdownMetricsRead == {"max_drawdown"}

\* every key of names is present in the map metrics with the value 0
NeutralMetrics(metrics, names) ==
    /\ names \subseteq DOMAIN metrics
    /\ \A k \in names : metrics[k] = 0

\* the run has ended and no Trade was ever made the current position
NoTradeRunEnded == pc \in {"done", "raised"} /\ opened = 0

\* C15: a run on a series that produces no trade never raises; it returns an
\* empty trade list, an equity curve that is absent or holds only the initial
\* sample, and metric maps in which every metric is present with the value 0
C15_NoTradeRunNeutral ==
    NoTradeRunEnded =>
        /\ pc = "done"
        /\ results.trades = <<>>
        /\ results.equity_curve = NoCurve
        /\ NeutralMetrics(results.performance_metrics, PerformanceMetricsRead)
        /\ NeutralMetrics(results.trade_metrics, TradeMetricsRead)
        /\ NeutralMetrics(results.drawdown_metrics, DrawdownMetricsRead)

\* what the code does on such a series: it returns, with an empty ledger, no
\* equity curve and three empty metric maps
C15_NoTradeRunReturnsEmptyMaps ==
    NoTradeRunEnded =>
        /\ pc = "done"
        /\ results.trades = <<>>
        /\ results.equity_curve = NoCurve
        /\ results.performance_metrics = EmptyMetrics
        /\ results.trade_metrics = EmptyMetrics
        /\ results.drawdown_metrics = EmptyMetrics

----------------------------------------------------------------------------
(* The equity curve *)

\* the number of samples of an equity curve
Samples(curve) == IF curve = NoCurve THEN 0 ELSE Len(curve)

\* the curve next is the curve prev with the sample (timestamp, value) appended
\* after all of its samples
AppendsSample(prev, next, timestamp, value) ==
    /\ next # NoCurve
    /\ Len(next) = Samples(prev) + 1
    /\ next[Len(next)] = [t |-> timestamp, v |-> value]
    /\ \A k \in 1..Samples(prev) : next[k] = prev[k] /\ prev[k].t < timestamp

\* C16: the iteration of every bar at whose start a position is open appends
\* exactly one sample (bar, available capital + size x close less the fee) to
\* the equity curve, after the samples of the earlier bars, and never fails,
\* the first such bar included
C16_SamplePerOpenBar ==
    [][(pc = "loop" /\ i < Len(signals_data.rows) /\ IsOpen(current_position))
       => (/\ pc' # "raised"
           /\ AppendsSample(equity_curve, equity_curve', i,
                            RAdd(available_capital,
                                 PositionValue(bparams, current_position,
                                               Row(signals_data, i).close))))]_vars

\* what the code does: the first bar at whose start a position is open ends the
\* run with an exception, so no run ever holds an equity curve
C16_FirstOpenBarRaises ==
    /\ [](equity_curve = NoCurve)
    /\ [][(pc = "loop" /\ i < Len(signals_data.rows) /\ IsOpen(current_position))
          => pc' = "raised"]_vars

----------------------------------------------------------------------------
(* Rejections *)

\* the reason strings of validate_trade's six checks
RejectionReasons == {CheckReason[k] : k \in 1..6}

\* C17 (the gate): for every input with a non-negative price validate_trade
\* returns without raising, and a rejection is the pair (false, reason)
C17_RejectionIsAValue ==
    (last_call.op = "validate_trade" /\ last_call.price >= 0) =>
        /\ ~last_call.result.raised
        /\ ~last_call.result.ok => last_call.result.reason \in RejectionReasons

\* the iteration asked the gate, and no position came out of it: the gate
\* rejected, or _execute_trade returned None
EntryRefused ==
    /\ [name |-> "validate_trade", slot_open |-> FALSE] \in calls'
    /\ current_position'.type = "none"

\* C17 (the engine): an iteration whose intent is rejected by the gate, or sized
\* to nothing by _execute_trade, opens no position, leaves capital, ledger and
\* equity curve as they are, and the loop goes on to the next bar
C17_RefusedEntryChangesNothing ==
    [][(pc = "loop" /\ i < Len(signals_data.rows) /\ EntryRefused)
       => (/\ available_capital' = available_capital
           /\ trades' = trades
           /\ equity_curve' = equity_curve
           /\ opened' = opened
           /\ pc' = "loop"
           /\ i' = i + 1)]_vars

----------------------------------------------------------------------------
(* optimize_strategy: the grid search *)

\* most keys of a parameter grid, longest value list of a key
MaxGridKeys == 2
MaxGridValues == 2

\* float("-inf")
MinusInf == [inf |-> -1]

\* a > b on scores: numbers and MinusInf
ScoreGt(a, b) ==
    IF a = MinusInf THEN FALSE ELSE IF b = MinusInf THEN TRUE ELSE a > b

\* metrics.get(key, default)
Get(metrics, key, default) == IF key \in DOMAIN metrics THEN metrics[key] ELSE default

\* the fields of the dataclass StrategyParameters
StrategyFields == DOMAIN DefaultStrategyParams

\* StrategyParameters(**param_dict): the fields param_dict does not name take the
\* defaults of the dataclass; a key that is no field raises TypeError
StrategyParameters(param_dict) ==
    [k \in StrategyFields |->
        IF k \in DOMAIN param_dict THEN param_dict[k] ELSE DefaultStrategyParams[k]]

\* [dict(zip(param_keys, params)) for params in product(*param_values)]: the
\* combinations in the order of itertools.product, the last key varying fastest
RECURSIVE Product(_)
Product(grid) ==
    IF grid = <<>>
    THEN <<EmptyMap>>
    ELSE LET Pairs(key, values, rest) ==
                 [n \in 1..(Len(values) * Len(rest)) |->
                     SetKey(rest[((n - 1) % Len(rest)) + 1], key,
                            values[((n - 1) \div Len(rest)) + 1])]
         IN  Pairs(Head(grid).key, Head(grid).values, Product(Tail(grid)))

\* the values a grid may list for a key; "lookback" is no field of StrategyParameters
GridValues ==
    [key \in {"take_profit_pct", "short_ema_period", "lookback"} |->
        CASE key = "take_profit_pct" -> {20, 10}
          [] key = "short_ema_period" -> {1, 2}
          [] key = "lookback" -> {5}]

\* the lists of at most MaxGridValues different values of a key
ValueLists(key) ==
    {values \in UNION {[1..n -> GridValues[key]] : n \in 0..MaxGridValues} :
        \A a, b \in 1..Len(values) : values[a] = values[b] => a = b}

\* parameter_ranges: a dict, its keys in insertion order
GridsOfLen(n) ==
    {grid \in [1..n -> UNION {{[key |-> key, values |-> values] : values \in ValueLists(key)} :
                              key \in DOMAIN GridValues}] :
        \A a, b \in 1..n : grid[a].key = grid[b].key => a = b}

GridSet == UNION {GridsOfLen(n) : n \in 0..MaxGridKeys}

OptimizationMetrics == {"sharpe_ratio", "total_return"}

\* the series of a search
SearchSeries == RerunSeries

\* optimize_strategy(data, parameter_ranges, optimization_metric), lines 407-414
SearchStart ==
    /\ pc = "idle"
    /\ search.pc = "none"
    /\ \E d \in SearchSeries, grid \in GridSet, metric \in OptimizationMetrics :
          search' = [pc |-> "product", data |-> d, parameter_ranges |-> grid,
                     optimization_metric |-> metric, combos |-> Product(grid),
                     param_dict |-> EmptyMap, best_score |-> MinusInf,
                     best_parameters |-> EmptyMap, best_results |-> NoResults,
                     trials |-> <<>>]
    /\ last_call' = [op |-> "optimize_strategy"]
    /\ UNCHANGED <<pc, data, signals_data, i, current_position, available_capital,
                   equity_history, equity_curve, trades, results, calls, opened, sparams,
                   bparams, strategy_position, riskVars, now, intents, dataVars, callers, notifier>>

\* the next trial that leaves the strategy's parameters as they are
TrialStart_keeps_params ==
    /\ search.pc = "product"
    /\ search.combos # <<>>
    /\ \E param_dict \in {Head(search.combos)} :
          IF DOMAIN param_dict \subseteq StrategyFields
          THEN /\ EnterRun([op |-> "optimize_strategy"], search.data, sparams)
               /\ search' = [search EXCEPT !.pc = "run", !.param_dict = param_dict,
                                           !.combos = Tail(@)]
          ELSE /\ search' = [search EXCEPT !.pc = "raised"]
               /\ UNCHANGED <<pc, data, signals_data, i, current_position,
                              available_capital, equity_history, equity_curve, trades,
                              results, calls, opened, sparams, bparams,
                              strategy_position, riskVars, now, last_call, intents, dataVars, callers, notifier>>

\* lines 417-423: the next combination, the strategy's parameters replaced, the
\* call of run_backtest
TrialStart ==
    /\ search.pc = "product"
    /\ search.combos # <<>>
    /\ \E param_dict \in {Head(search.combos)} :
          IF DOMAIN param_dict \subseteq StrategyFields
          THEN /\ EnterRun([op |-> "optimize_strategy"], search.data,
                           StrategyParameters(param_dict))
               /\ search' = [search EXCEPT !.pc = "run", !.param_dict = param_dict,
                                           !.combos = Tail(@)]
          ELSE /\ search' = [search EXCEPT !.pc = "raised"]
               /\ UNCHANGED <<pc, data, signals_data, i, current_position,
                              available_capital, equity_history, equity_curve, trades,
                              results, calls, opened, sparams, bparams,
                              strategy_position, riskVars, now, last_call, intents, dataVars, callers, notifier>>

\* lines 425-430 with the results of the trial: the score, the best so far
Scored(frame, trial_results) ==
    LET Compared(score) ==
            IF ScoreGt(score, frame.best_score)
            THEN [frame EXCEPT !.best_score = score,
                               !.best_parameters = frame.param_dict,
                               !.best_results = trial_results]
            ELSE frame
    IN  Compared(Get(trial_results.performance_metrics, frame.optimization_metric,
                     MinusInf))

\* run_backtest has returned to optimize_strategy, or raised through it
TrialEnd ==
    /\ search.pc = "run"
    /\ pc \in {"done", "raised"}
    /\ search' = IF pc = "raised"
                 THEN [search EXCEPT !.pc = "raised"]
                 ELSE [Scored(search, results) EXCEPT
                           !.pc = "product",
                           !.trials = Append(@, [params |-> search.param_dict,
                                                 results |-> results])]
    /\ UNCHANGED <<pc, data, signals_data, i, current_position, available_capital,
                   equity_history, equity_curve, trades, results, calls, opened, sparams,
                   bparams, strategy_position, riskVars, now, last_call, intents, dataVars, callers, notifier>>

\* line 432: return best_parameters, best_results
SearchReturn ==
    /\ search.pc = "product"
    /\ search.combos = <<>>
    /\ search' = [search EXCEPT !.pc = "returned"]
    /\ last_call' = [op |-> "optimize_strategy",
                     result |-> <<search.best_parameters, search.best_results>>]
    /\ UNCHANGED <<pc, data, signals_data, i, current_position, available_capital,
                   equity_history, equity_curve, trades, results, calls, opened, sparams,
                   bparams, strategy_position, riskVars, now, intents, dataVars, callers, notifier>>

\* the endpoint's objects: MomentumStrategy(), BacktestingEngine(strategy=strategy)
InitSearch ==
    /\ NoCallers
    /\ NotifierUnused
    /\ ProcessorUnused
    /\ \E bp \in RerunBacktestParams : EngineConstructed(DefaultStrategyParams, bp)
    /\ RiskConstructed(DefaultRiskParams, 0)
    /\ now = 0
    /\ last_call = NoCall

NextSearch ==
    SearchStart \/ TrialStart \/ LoopBar \/ AfterLoop \/ TrialEnd \/ SearchReturn \/ Tick

SpecSearch == InitSearch /\ [][NextSearch]_vars

----------------------------------------------------------------------------
(* Properties of optimize_strategy *)

\* the score of the k-th trial of the search
TrialScore(k) ==
    Get(search.trials[k].results.performance_metrics, search.optimization_metric,
        MinusInf)

\* the search has run the engine once for each combination of the cross product,
\* in enumeration order
RanEveryCombination ==
    /\ Len(search.trials) = Len(Product(search.parameter_ranges))
    /\ \A k \in 1..Len(search.trials) :
          search.trials[k].params = Product(search.parameter_ranges)[k]

\* the search returned the k-th trial: its parameters and its results
ReturnedTrial(k) ==
    /\ last_call.result[1] = search.trials[k].params
    /\ last_call.result[2] = search.trials[k].results

\* optimize_strategy has returned for a grid that is not empty: it has a key,
\* and every key has a value
SearchReturned ==
    /\ search.pc = "returned"
    /\ search.parameter_ranges # <<>>
    /\ \A n \in 1..Len(search.parameter_ranges) : search.parameter_ranges[n].values # <<>>

\* C18: for every non-empty grid the search runs the engine once per combination
\* of the cross product, in enumeration order, and returns the parameters and the
\* results of the first trial whose score is maximal, a missing metric scoring
\* -infinity; the results returned are never None
C18_ReturnsFirstBestTrial ==
    SearchReturned =>
        /\ RanEveryCombination
        /\ last_call.result[2] # NoResults
        /\ \E k \in 1..Len(search.trials) :
              /\ ReturnedTrial(k)
              /\ \A j \in 1..Len(search.trials) : ~ScoreGt(TrialScore(j), TrialScore(k))
              /\ \A j \in 1..(k - 1) : ScoreGt(TrialScore(k), TrialScore(j))

\* what the code does: it runs every combination in order, and as no trial has
\* the metric it returns the empty dict and None
C18_ReturnsNoTrial ==
    SearchReturned =>
        /\ RanEveryCombination
        /\ last_call.result = <<EmptyMap, NoResults>>

\* run_backtest of the search's series on a freshly constructed strategy with the
\* parameters StrategyParameters(**param_dict), a freshly constructed risk manager
\* and a freshly constructed engine
FreshTrial(param_dict) ==
    run_backtest(search.data, StrategyParameters(param_dict), bparams, rparams,
                 RiskState(<<>>, EmptyMap, 0, now), NoPosition, now)

\* the results recorded for a trial are the results fresh returns
RecordedAs(trial, fresh) == ~fresh.raised /\ trial.results = fresh.results

\* what a trial finds when it starts is what freshly constructed objects hold
NothingCarriedOver ==
    /\ strategy_position = NoPosition
    /\ trade_history = <<>>
    /\ open_positions = EmptyMap
    /\ daily_pnl = 0
    /\ (pc = "loop" /\ i = 1) => (trades = <<>> /\ opened = 0 /\ equity_curve = NoCurve)

\* C19: the result recorded for a trial is the result of running its combination
\* alone on freshly constructed strategy, risk manager and engine, whatever
\* trials ran before it; a trial finds no position snapshot, trade history,
\* open-position map, daily P&L or ledger of an earlier trial
C19_TrialsIsolated ==
    /\ search.pc = "run" => NothingCarriedOver
    /\ (search.pc = "product" /\ search.trials # <<>>) =>
          RecordedAs(search.trials[Len(search.trials)],
                     FreshTrial(search.trials[Len(search.trials)].params))

\* a second trial recorded without a trade after a first trial that left a trade
\* in the ledger, the risk manager's daily reset having fired
C19_Witness ==
    /\ search.pc = "product"
    /\ Len(search.trials) = 2
    /\ search.trials[1].results.trades # <<>>
    /\ search.trials[2].results.trades = <<>>
    /\ last_reset > 0

\* the loop of optimize_strategy (lines 417-430) on the frame of the search, the
\* risk manager in state rs, at clock value t
RECURSIVE search_loop(_, _, _, _, _, _)
search_loop(frame, bp, rp, rs, spos, t) ==
    LET Ran(next, r) ==
            IF r.raised
            THEN [raised |-> TRUE, result |-> <<>>, trials |-> frame.trials]
            ELSE search_loop([Scored(next, r.results) EXCEPT
                                 !.trials = Append(@, [params |-> next.param_dict,
                                                       results |-> r.results])],
                             bp, rp, r.rs, spos, t)
        Tried(param_dict) ==
            IF DOMAIN param_dict \subseteq StrategyFields
            THEN Ran([frame EXCEPT !.param_dict = param_dict, !.combos = Tail(@)],
                     run_backtest(frame.data, StrategyParameters(param_dict), bp, rp, rs,
                                  spos, t))
            ELSE [raised |-> TRUE, result |-> <<>>, trials |-> frame.trials]
    IN  IF frame.combos = <<>>
        THEN [raised |-> FALSE, result |-> <<frame.best_parameters, frame.best_results>>,
              trials |-> frame.trials]
        ELSE Tried(Head(frame.combos))

\* BacktestingEngine.optimize_strategy(d, grid, metric) on an engine with the
\* parameters bp, a risk manager with parameters rp in state rs, a strategy
\* holding the snapshot spos, at clock value t
optimize_strategy(d, grid, metric, bp, rp, rs, spos, t) ==
    search_loop([pc |-> "product", data |-> d, parameter_ranges |-> grid,
                 optimization_metric |-> metric, combos |-> Product(grid),
                 param_dict |-> EmptyMap, best_score |-> MinusInf,
                 best_parameters |-> EmptyMap, best_results |-> NoResults,
                 trials |-> <<>>],
                bp, rp, rs, spos, t)

\* the search of the model executed at clock value 0, the clock standing still
SearchAtZero ==
    optimize_strategy(search.data, search.parameter_ranges, search.optimization_metric,
                      bparams, rparams, RiskState(<<>>, EmptyMap, 0, 0), NoPosition, 0)

\* the search has ended as the execution other has: both raise, or both return
\* the same parameters and results after trials with the same ledgers, equity
\* curves and metrics
SearchEndedAs(other) ==
    /\ search.pc = "raised" <=> other.raised
    /\ search.pc = "returned" =>
          /\ last_call.result = other.result
          /\ search.trials = other.trials

----------------------------------------------------------------------------
(* Configurations the dataclasses accept: StrategyParameters and
   BacktestParameters have no __post_init__, and neither the constructors nor
   run_backtest check a field *)

\* StrategyParameters with any order of the EMA periods and thresholds of 0
ConfigStrategyParams ==
    {[DefaultStrategyParams EXCEPT !.short_ema_period = periods[1],
                                   !.long_ema_period = periods[2],
                                   !.min_volume = mv,
                                   !.max_spread_pct = Rat(spread, 2)] :
        periods \in {<<1, 3>>, <<3, 3>>, <<3, 1>>}, mv \in {1, 0}, spread \in {1, 0}}

\* BacktestParameters with a positive, a zero and a negative initial capital
ConfigBacktestParams ==
    {[DefaultBacktestParams EXCEPT !.initial_capital = cap] : cap \in {1000, 0, -100}}

\* MomentumStrategy(sp), RiskManager(), BacktestingEngine(strategy, risk_manager, bp)
InitConfig ==
    /\ NoCallers
    /\ NotifierUnused
    /\ ProcessorUnused
    /\ \E sp \in ConfigStrategyParams, bp \in ConfigBacktestParams :
          EngineConstructed(sp, bp)
    /\ RiskConstructed(DefaultRiskParams, 0)
    /\ now = 0
    /\ last_call = NoCall

NextConfig == RunStart \/ LoopBar \/ AfterLoop

SpecConfig == InitConfig /\ [][NextConfig]_vars

\* the configuration of the engine is one the specification calls invalid
InvalidConfiguration ==
    \/ sparams.long_ema_period <= sparams.short_ema_period
    \/ bparams.initial_capital <= 0
    \/ sparams.min_volume <= 0
    \/ RLe(sparams.max_spread_pct, RZero)

\* C21: under an invalid configuration (long EMA period <= short EMA period,
\* non-positive initial capital, non-positive threshold) no bar is processed, no
\* trade is recorded and the run does not return results: it fails before the
\* first bar
C21_InvalidConfigurationFailsFast ==
    InvalidConfiguration =>
        /\ pc # "done"
        /\ i <= 1
        /\ opened = 0
        /\ trades = <<>>

\* a run under an invalid configuration has returned results like any other,
\* with a trade in the ledger
InvalidConfigurationTraded ==
    InvalidConfiguration /\ pc = "done" /\ Len(results.trades) = 1

----------------------------------------------------------------------------
(* HistoricalDataProcessor: the pure steps of process_data.  A frame is
   [rows, columns]; a row carries its index value `timestamp` (minutes) and one
   Option value per column, Null being NaN. *)

\* DataProcessingConfig(); resample_interval and max_gap_threshold in minutes
DefaultDataProcessingConfig ==
    [resample_interval |-> 1, fill_gaps |-> TRUE, remove_outliers |-> TRUE,
     outlier_std_threshold |-> 3, min_volume_threshold |-> Rat(1, 100),
     validate_data |-> TRUE, max_gap_threshold |-> 5, normalize_volume |-> TRUE,
     add_indicators |-> TRUE, cache_processed_data |-> TRUE]

\* the limit of fillna(method="ffill", limit=5)
FillLimit == 5

\* minutes in the day that strftime('%Y%m%d') prints
MinutesPerDay == 1440

\* the element of a one-element set.  The({F(x) : x \in {e}}) is F(e) with e
\* evaluated once, before F
The(S) == CHOOSE x \in S : TRUE

\* df[col] without its NaN entries, which mean(), std() and max() skip
Values(df, col) ==
    LET present == SelectSeq(df.rows, LAMBDA row : row[col].some)
    IN  <<>> \o [k \in 1..Len(present) |-> present[k][col].v]

\* the sum of xs[lo..hi], by halves
RECURSIVE SumRange(_, _, _)
SumRange(xs, lo, hi) ==
    IF lo > hi THEN RZero
    ELSE IF lo = hi THEN xs[lo]
    ELSE The({RAdd(left, right) :
                 left \in {SumRange(xs, lo, (lo + hi) \div 2)},
                 right \in {SumRange(xs, (lo + hi) \div 2 + 1, hi)}})

RSum(xs) == SumRange(xs, 1, Len(xs))

\* Series.mean() of at least one value
Mean(xs) == The({RDiv(total, RInt(Len(xs))) : total \in {RSum(xs)}})

\* the sum of the squared deviations from the mean
SumSq(xs) ==
    The({RSum(<<>> \o [k \in 1..Len(xs) |->
                          The({RMul(dev, dev) : dev \in {RSub(xs[k], mean)}})]) :
            mean \in {Mean(xs)}})

\* the integer square root
ISqrt(n) == CHOOSE r \in 0..n : r * r <= n /\ n < (r + 1) * (r + 1)

\* Series.std() of at least two values (ddof = 1); the root is exact when the
\* variance is the square of a rational, as it is in every frame whose values
\* a clip moves
Std(xs) ==
    The({[n |-> ISqrt(var.n), d |-> ISqrt(var.d)] :
            var \in {The({RDiv(ss, RInt(Len(xs) - 1)) : ss \in {SumSq(xs)}})}})

\* abs(x - mean) > threshold * std, decided on the squares; a NaN std (fewer
\* than two values) compares False
Outlying(x, xs, threshold) ==
    /\ Len(xs) >= 2
    /\ \E ss \in {SumSq(xs)}, dev \in {The({RSub(x, mean) : mean \in {Mean(xs)}})} :
          \E scaled \in {RMul(RInt(threshold * threshold), ss)},
             square \in {RMul(dev, dev)} :
             RLt(scaled, RMul(RInt(Len(xs) - 1), square))

\* _validate_raw_data(df)
validate_raw_data(df, config) ==
    LET n == Len(df.rows)
        missing_columns == OHLCV \ df.columns
        duplicates == {k \in 1..n : \E j \in 1..(k - 1) :
                          df.rows[j].timestamp = df.rows[k].timestamp}
        gaps == {k \in 2..n : df.rows[k].timestamp - df.rows[k - 1].timestamp
                                 > config.resample_interval}
        closes == IF "close" \in df.columns THEN Values(df, "close") ELSE <<>>
        outliers == {k \in 1..n : /\ "close" \in df.columns
                                  /\ df.rows[k].close.some
                                  /\ Outlying(df.rows[k].close.v, closes,
                                              config.outlier_std_threshold)}
        non_positive == {k \in 1..n : /\ "close" \in df.columns
                                      /\ df.rows[k].close.some
                                      /\ RLe(df.rows[k].close.v, RZero)}
        issues == (IF missing_columns # {} THEN <<"missing required columns">> ELSE <<>>)
                  \o (IF duplicates # {} THEN <<"duplicate timestamps">> ELSE <<>>)
                  \o (IF gaps # {} THEN <<"time gaps">> ELSE <<>>)
                  \o (IF outliers # {} THEN <<"price anomalies">> ELSE <<>>)
                  \o (IF non_positive # {} THEN <<"zero or negative prices">> ELSE <<>>)
    IN  [is_valid |-> issues = <<>>,
         issues |-> issues,
         gap_locations |-> {df.rows[k].timestamp : k \in gaps},
         anomaly_locations |-> {df.rows[k].timestamp : k \in outliers},
         total_missing_values |->
             Cardinality({<<k, c>> \in (1..n) \X df.columns : ~df.rows[k][c].some})]

\* the validation result that process_data builds for a cache hit
AllClear ==
    [is_valid |-> TRUE, issues |-> <<>>, gap_locations |-> {},
     anomaly_locations |-> {}, total_missing_values |-> 0]

\* Series.clip(lower = mean - threshold * std, upper = mean + threshold * std)
\* of one value; NaN bounds do not clip and NaN values stay NaN
clip(x, xs, threshold) ==
    IF ~Outlying(x, xs, threshold) THEN x
    ELSE The({IF RLt(mean, x) THEN RAdd(mean, reach) ELSE RSub(mean, reach) :
                 mean \in {Mean(xs)},
                 reach \in {The({RMul(RInt(threshold), std) : std \in {Std(xs)}})}})

\* fillna(method="ffill", limit=FillLimit) of column col at row k
ffill(rows, col, k) ==
    IF rows[k][col].some THEN rows[k][col]
    ELSE LET valid == {j \in 1..(k - 1) : rows[j][col].some}
             Latest(js) == CHOOSE j \in js : \A other \in js : other <= j
         IN  IF valid # {} /\ k - Latest(valid) <= FillLimit
             THEN rows[Latest(valid)][col] ELSE Null

\* the row with its columns given by the function value
MapRow(row, value) ==
    [timestamp |-> row.timestamp, open |-> value["open"], high |-> value["high"],
     low |-> value["low"], close |-> value["close"], volume |-> value["volume"]]

\* cleaned[col].clip(...) for the price columns of a frame without empty rows
clip_outliers(df, config) ==
    LET Clipped(row, c) ==
            IF c \in df.columns \cap {"open", "high", "low", "close"} /\ row[c].some
            THEN The({Some(clip(row[c].v, xs, config.outlier_std_threshold)) :
                         xs \in {Values(df, c)}})
            ELSE row[c]
    IN  <<>> \o [k \in 1..Len(df.rows) |->
                    MapRow(df.rows[k], [c \in OHLCV |-> Clipped(df.rows[k], c)])]

\* _clean_data(df); the frame has a volume column whenever the volume filter is on
clean_data(df, config) ==
    LET Fill(rows) ==
            IF config.fill_gaps
            THEN <<>> \o [k \in 1..Len(rows) |->
                             MapRow(rows[k], [c \in OHLCV |-> IF c \in df.columns
                                                               THEN ffill(rows, c, k)
                                                               ELSE rows[k][c]])]
            ELSE rows
        Thin(rows) ==
            IF RLt(RZero, config.min_volume_threshold)
            THEN SelectSeq(rows, LAMBDA row :
                                    /\ row.volume.some
                                    /\ RLe(config.min_volume_threshold, row.volume.v))
            ELSE rows
    IN  The({[df EXCEPT !.rows = The({Thin(filled) : filled \in {Fill(clipped)}})] :
                clipped \in {The({IF config.remove_outliers
                                  THEN clip_outliers(dropped, config)
                                  ELSE dropped.rows :
                                     dropped \in {[df EXCEPT !.rows =
                                         SelectSeq(@, LAMBDA row :
                                             \E c \in df.columns : row[c].some)]}})}})

\* the largest of a non-empty set of Option values, NaN skipped; Null when all are NaN
OptMax(opts) ==
    LET present == {o \in opts : o.some}
    IN  IF present = {} THEN Null
        ELSE CHOOSE o \in present : \A other \in present : RLe(other.v, o.v)

OptMin(opts) ==
    LET present == {o \in opts : o.some}
    IN  IF present = {} THEN Null
        ELSE CHOOSE o \in present : \A other \in present : RLe(o.v, other.v)

\* _normalize_data with the close left out of the new high
normalize_data_high_without_close(df, config) ==
    LET max_volume == OptMax({df.rows[k].volume : k \in 1..Len(df.rows)})
        Volume(row) ==
            IF /\ config.normalize_volume /\ "volume" \in df.columns
               /\ max_volume.some /\ RLt(RZero, max_volume.v) /\ row.volume.some
            THEN Some(RDiv(row.volume.v, max_volume.v))
            ELSE row.volume
        ordered == {"open", "high", "low", "close"} \subseteq df.columns
    IN  [df EXCEPT !.rows =
            [k \in 1..Len(df.rows) |->
                [df.rows[k] EXCEPT
                    !.volume = Volume(df.rows[k]),
                    !.high = IF ordered THEN OptMax({df.rows[k].open, @}) ELSE @,
                    !.low = IF ordered
                            THEN OptMin({df.rows[k].open, @, df.rows[k].close}) ELSE @]]]

\* _normalize_data(df)
normalize_data(df, config) ==
    LET max_volume == OptMax({df.rows[k].volume : k \in 1..Len(df.rows)})
        Volume(row) ==
            IF /\ config.normalize_volume /\ "volume" \in df.columns
               /\ max_volume.some /\ RLt(RZero, max_volume.v) /\ row.volume.some
            THEN Some(RDiv(row.volume.v, max_volume.v))
            ELSE row.volume
        ordered == {"open", "high", "low", "close"} \subseteq df.columns
    IN  [df EXCEPT !.rows =
            [k \in 1..Len(df.rows) |->
                [df.rows[k] EXCEPT
                    !.volume = Volume(df.rows[k]),
                    !.high = IF ordered
                             THEN OptMax({df.rows[k].open, @, df.rows[k].close}) ELSE @,
                    !.low = IF ordered
                            THEN OptMin({df.rows[k].open, @, df.rows[k].close}) ELSE @]]]

\* +inf, as a division by zero of a positive float gives it
PlusInf == [inf |-> 1]

\* Series.pct_change(periods) at row k: the NaN entries are padded forward first;
\* x / 0 is an infinity and 0 / 0 is NaN
pct_change(rows, col, periods, k) ==
    IF k <= periods THEN Null
    ELSE LET Padded(j) ==
                 LET valid == {h \in 1..j : rows[h][col].some}
                 IN  IF valid = {} THEN Null
                     ELSE rows[CHOOSE h \in valid : \A other \in valid : other <= h][col]
             Change(a, b) ==
                 IF ~a.some \/ ~b.some THEN Null
                 ELSE IF b.v = RZero
                      THEN IF a.v = RZero THEN Null
                           ELSE Some(IF RLt(RZero, a.v) THEN PlusInf ELSE MinusInf)
                      ELSE Some(RSub(RDiv(a.v, b.v), RInt(1)))
         IN  Change(Padded(k), Padded(k - periods))

\* np.log1p(x), kept symbolic: NaN below -1 and at -inf, -inf at -1
log1p(x) ==
    IF ~x.some \/ x.v = MinusInf THEN Null
    ELSE IF x.v = PlusInf THEN x
    ELSE IF RLt(x.v, RInt(-1)) THEN Null
    ELSE IF x.v = RInt(-1) THEN Some(MinusInf)
    ELSE Some([log1p |-> x.v])

\* the window of Series.rolling(window) that ends at row k of a column given as a
\* sequence of Option values: Null until the window is full of finite numbers
rolling(column, window, k) ==
    IF k < window THEN Null
    ELSE IF \E j \in (k - window + 1)..k : ~column[j].some \/ "inf" \in DOMAIN column[j].v
         THEN Null
         ELSE Some([j \in 1..window |-> column[k - window + j].v])

\* rolling(window).mean() and rolling(window).std() of a window; the standard
\* deviation is kept symbolic, as the values it is the deviation of
rolling_mean(w) == IF w.some THEN Some(Mean(w.v)) ELSE Null
rolling_std(w) == IF w.some THEN Some([std |-> w.v]) ELSE Null

VolatilityWindow == 20
MomentumLag == 10
ShortWindow == 10
LongWindow == 50

\* _add_technical_indicators(df) for a frame with a close column
add_technical_indicators(df) ==
    LET n == Len(df.rows)
        close == [k \in 1..n |-> df.rows[k].close]
        volume == [k \in 1..n |-> df.rows[k].volume]
        returns == [k \in 1..n |-> pct_change(df.rows, "close", 1, k)]
        Derived(k) ==
            [returns |-> returns[k],
             log_returns |-> log1p(returns[k]),
             volatility |-> rolling_std(rolling(returns, VolatilityWindow, k)),
             momentum |-> pct_change(df.rows, "close", MomentumLag, k),
             sma_10 |-> rolling_mean(rolling(close, ShortWindow, k)),
             sma_20 |-> rolling_mean(rolling(close, VolatilityWindow, k)),
             sma_50 |-> rolling_mean(rolling(close, LongWindow, k))]
            @@ (IF "volume" \in df.columns
                THEN [volume_ma |-> rolling_mean(rolling(volume, VolatilityWindow, k)),
                      volume_std |-> rolling_std(rolling(volume, VolatilityWindow, k))]
                ELSE EmptyMap)
        enhanced == [k \in 1..n |-> Derived(k) @@ df.rows[k]]
    IN  [columns |-> df.columns \cup {"returns", "log_returns", "volatility", "momentum",
                                      "sma_10", "sma_20", "sma_50"}
                     \cup (IF "volume" \in df.columns
                           THEN {"volume_ma", "volume_std"} ELSE {}),
         rows |-> SelectSeq(enhanced,
                            LAMBDA row : \A c \in (DOMAIN row) \ {"timestamp"} :
                                            c \in df.columns \/ c \notin OHLCV => row[c].some)]

\* processed[processed.index >= start_date] and processed[processed.index <= end_date],
\* each applied when its date is given
date_filter(df, start_date, end_date) ==
    [df EXCEPT !.rows =
        SelectSeq(@, LAMBDA row : /\ start_date.some => row.timestamp >= start_date.v
                                  /\ end_date.some => row.timestamp <= end_date.v)]

\* a column lookup of the processing steps raises KeyError: cleaned["volume"] of
\* the volume filter or enhanced["close"] of the indicators
KeyError(df, config) ==
    \/ RLt(RZero, config.min_volume_threshold) /\ "volume" \notin df.columns
    \/ config.add_indicators /\ "close" \notin df.columns

\* the processing steps of process_data on a frame whose lookups succeed
processed_data(df, start_date, end_date, config) ==
    LET Enriched(normalized) ==
            IF config.add_indicators THEN add_technical_indicators(normalized)
            ELSE normalized
    IN  Enriched(normalize_data(clean_data(date_filter(df, start_date, end_date), config),
                                config))

\* a key that keeps the time of day of the two dates
cache_key_by_the_minute(symbol, start_date, end_date) == <<symbol, start_date, end_date>>

\* _cache_key(symbol, start_date, end_date): the symbol and the two days
cache_key(symbol, start_date, end_date) ==
    <<symbol, start_date \div MinutesPerDay, end_date \div MinutesPerDay>>

\* the footer that to_parquet writes after the row groups: the schema and the
\* number of rows
Footer(df) == [columns |-> df.columns, num_rows |-> Len(df.rows)]

\* a file whose footer describes the row groups it holds
Complete(file) == file.data.some /\ file.footer.some /\ file.footer.v = Footer(file.data.v)

----------------------------------------------------------------------------
(* process_data as the steps of a worker.  The file system is shared: a step
   of one worker is atomic, the steps of two workers interleave.  Every step
   that touches a file takes the set `oks` of outcomes the file system may
   give it (TRUE: the operation succeeds, FALSE: it raises OSError). *)

\* a raw row with every column present
RawRow(timestamp, open, high, low, close, volume) ==
    [timestamp |-> timestamp, open |-> Some(RInt(open)), high |-> Some(RInt(high)),
     low |-> Some(RInt(low)), close |-> Some(RInt(close)), volume |-> Some(RInt(volume))]

Idle == [pc |-> "idle"]

Finished(frame) == frame.pc \in {"returned", "raised"}

\* the worker is at process_data(df, symbol, start_date, end_date) of a processor
\* built with config; `before` remembers the cache directory at the call, `hit`
\* whether the call returned the file it read
ProcessCall(w, args) ==
    /\ workers[w].pc = "idle" \/ Finished(workers[w])
    /\ \E config \in args.configs, df \in args.frames, symbol \in args.symbols,
          start_date \in args.start_dates, end_date \in args.end_dates :
          workers' = [workers EXCEPT ![w] =
              [pc |-> IF start_date.some /\ end_date.some
                      THEN IF config.cache_processed_data THEN "exists" ELSE "validate"
                      ELSE "validate",
               config |-> config, df |-> df, symbol |-> symbol,
               start_date |-> start_date, end_date |-> end_date,
               cache_key |-> IF start_date.some /\ end_date.some
                             THEN Some(cache_key(symbol, start_date.v, end_date.v))
                             ELSE Null,
               footer |-> Null, processed |-> Null, validation_result |-> Null,
               result |-> Null, before |-> cache, hit |-> FALSE,
               read_failed |-> FALSE, write_failed |-> FALSE]]
    /\ UNCHANGED <<engineVars, riskVars, now, last_call, intents, cache, callers, notifier>>

\* _load_from_cache: cache_path.exists()
CacheExists(w) ==
    /\ workers[w].pc = "exists"
    /\ workers' = [workers EXCEPT ![w].pc =
                      IF workers[w].cache_key.v \in DOMAIN cache THEN "read_footer"
                      ELSE "validate"]
    /\ UNCHANGED <<engineVars, riskVars, now, last_call, intents, cache, callers, notifier>>

\* pd.read_parquet(cache_path) opens the file and reads its footer; a failure
\* or a file without a footer raises, which _load_from_cache turns into None
ReadFooter(w, oks) ==
    /\ workers[w].pc = "read_footer"
    /\ \E ok \in oks :
          workers' = [workers EXCEPT ![w] =
              IF ok /\ cache[@.cache_key.v].footer.some
              THEN [@ EXCEPT !.pc = "read_data",
                             !.footer = cache[workers[w].cache_key.v].footer]
              ELSE [@ EXCEPT !.pc = "validate", !.read_failed = TRUE]]
    /\ UNCHANGED <<engineVars, riskVars, now, last_call, intents, cache, callers, notifier>>

\* pd.read_parquet(cache_path) reads the row groups that the footer describes.
\* When the file no longer is the one the footer was read from, the read either
\* raises or decodes, under the schema and row count of that footer, what the
\* file holds now
ReadData(w, oks) ==
    /\ workers[w].pc = "read_data"
    /\ \E ok \in oks, decoded \in BOOLEAN :
          LET frame == workers[w]
              file == cache[frame.cache_key.v]
              intact == file.footer = frame.footer /\ Complete(file)
              readable == /\ file.data.some
                          /\ file.data.v.columns = frame.footer.v.columns
                          /\ Len(file.data.v.rows) >= frame.footer.v.num_rows
          IN  workers' = [workers EXCEPT ![w] =
                  IF ok /\ readable /\ (intact \/ decoded)
                  THEN [@ EXCEPT !.pc = "returned", !.hit = TRUE,
                                 !.result =
                                     Some(<<[file.data.v EXCEPT !.rows =
                                                SubSeq(@, 1, frame.footer.v.num_rows)],
                                            AllClear>>)]
                  ELSE [@ EXCEPT !.pc = "validate", !.read_failed = TRUE]]
    /\ UNCHANGED <<engineVars, riskVars, now, last_call, intents, cache, callers, notifier>>

\* process_data from the validation to the indicators; without both dates, or
\* without caching, the call returns here
Process(w) ==
    /\ workers[w].pc = "validate"
    /\ workers' = [workers EXCEPT ![w] =
          IF KeyError(@.df, @.config) THEN [@ EXCEPT !.pc = "raised"]
          ELSE LET Done(frame, series, validation_result) ==
                       IF frame.cache_key.some /\ frame.config.cache_processed_data
                       THEN [frame EXCEPT !.pc = "open",
                                          !.processed = Some(series),
                                          !.validation_result = Some(validation_result)]
                       ELSE [frame EXCEPT !.pc = "returned",
                                          !.result = Some(<<series, validation_result>>)]
               IN  Done(@, processed_data(@.df, @.start_date, @.end_date, @.config),
                        validate_raw_data(@.df, @.config))]
    /\ UNCHANGED <<engineVars, riskVars, now, last_call, intents, cache, callers, notifier>>

\* the step of df.to_parquet(cache_path) of worker w failed: the OSError leaves
\* _save_to_cache and process_data
WriteFails(w) == workers' = [workers EXCEPT ![w].pc = "raised", ![w].write_failed = TRUE]

\* df.to_parquet(cache_path) opens the file for writing, which empties it
WriteOpen(w, oks) ==
    /\ workers[w].pc = "open"
    /\ \E ok \in oks :
          IF ok
          THEN /\ cache' = SetKey(cache, workers[w].cache_key.v,
                                  [data |-> Null, footer |-> Null])
               /\ workers' = [workers EXCEPT ![w].pc = "write_data"]
          ELSE WriteFails(w) /\ UNCHANGED cache
    /\ UNCHANGED <<engineVars, riskVars, now, last_call, intents, callers, notifier>>

\* df.to_parquet(cache_path) writes the row groups
WriteData(w, oks) ==
    /\ workers[w].pc = "write_data"
    /\ \E ok \in oks :
          IF ok
          THEN /\ cache' = [cache EXCEPT ![workers[w].cache_key.v].data =
                                             workers[w].processed]
               /\ workers' = [workers EXCEPT ![w].pc = "write_footer"]
          ELSE WriteFails(w) /\ UNCHANGED cache
    /\ UNCHANGED <<engineVars, riskVars, now, last_call, intents, callers, notifier>>

\* df.to_parquet(cache_path) writes the footer and closes the file; process_data
\* returns
WriteFooter(w, oks) ==
    /\ workers[w].pc = "write_footer"
    /\ \E ok \in oks :
          IF ok
          THEN /\ cache' = [cache EXCEPT ![workers[w].cache_key.v].footer =
                                             Some(Footer(workers[w].processed.v))]
               /\ workers' = [workers EXCEPT ![w] =
                      [@ EXCEPT !.pc = "returned",
                                !.result = Some(<<workers[w].processed.v,
                                                  workers[w].validation_result.v>>)]]
          ELSE WriteFails(w) /\ UNCHANGED cache
    /\ UNCHANGED <<engineVars, riskVars, now, last_call, intents, callers, notifier>>

----------------------------------------------------------------------------
(* One worker and a file system that may fail: SpecCache *)

\* the raw frame with the given index, closes and volumes (open = high = low =
\* close); a column outside `columns` is absent, its values Null
RawFrame(timestamps, closes, volumes, columns) ==
    [columns |-> columns,
     rows |-> [k \in 1..Len(timestamps) |->
                  [c \in OHLCV \cup {"timestamp"} |->
                      IF c = "timestamp" THEN timestamps[k]
                      ELSE IF c \notin columns THEN Null
                      ELSE RawRow(timestamps[k], closes[k], closes[k], closes[k],
                                  closes[k], volumes[k])[c]]]]

\* a frame with one price far from the others has SpikeRoot * SpikeRoot rows: the
\* standard deviation of such a column is rational
SpikeRoot == 4
SpikeRows == SpikeRoot * SpikeRoot

\* raw frames: two sound ones over the same minutes, one with a thin bar, and one
\* for each validation issue (gap, duplicate timestamp, non-positive close,
\* missing column, price anomaly)
CacheFrames ==
    {RawFrame(<<0, 1>>, <<10, 12>>, <<1, 4>>, OHLCV),
     RawFrame(<<0, 1>>, <<12, 10>>, <<4, 1>>, OHLCV),
     RawFrame(<<0, 1>>, <<10, 12>>, <<0, 4>>, OHLCV),
     RawFrame(<<0, 2>>, <<10, 12>>, <<1, 4>>, OHLCV),
     RawFrame(<<1, 1>>, <<10, 12>>, <<1, 4>>, OHLCV),
     RawFrame(<<0, 1>>, <<0, 12>>, <<1, 4>>, OHLCV),
     RawFrame(<<0, 1>>, <<10, 12>>, <<1, 4>>, OHLCV \ {"volume"}),
     RawFrame([k \in 1..SpikeRows |-> k],
              [k \in 1..SpikeRows |-> IF k = 2 THEN 26 ELSE 10],
              [k \in 1..SpikeRows |-> 1], OHLCV)}

\* the default configuration, the default without indicators, and the latter
\* also without the cache
CacheConfigs ==
    {DefaultDataProcessingConfig,
     [DefaultDataProcessingConfig EXCEPT !.add_indicators = FALSE],
     [DefaultDataProcessingConfig EXCEPT !.add_indicators = FALSE,
                                         !.cache_processed_data = FALSE]}

\* the calls of SpecCache: the two start dates lie in the same day
CacheArgs ==
    [configs |-> CacheConfigs, frames |-> CacheFrames, symbols |-> {"BTC"},
     start_dates |-> {Null, Some(0), Some(1)}, end_dates |-> {Null, Some(20)}]

InitCache ==
    /\ NoCallers
    /\ NotifierUnused
    /\ EngineConstructed(DefaultStrategyParams, DefaultBacktestParams)
    /\ RiskConstructed(DefaultRiskParams, 0)
    /\ now = 0
    /\ last_call = NoCall
    /\ cache = EmptyMap
    /\ workers = [w \in {1} |-> Idle]

NextCache ==
    \/ ProcessCall(1, CacheArgs)
    \/ CacheExists(1)
    \/ ReadFooter(1, BOOLEAN)
    \/ ReadData(1, BOOLEAN)
    \/ Process(1)
    \/ WriteOpen(1, BOOLEAN)
    \/ WriteData(1, BOOLEAN)
    \/ WriteFooter(1, BOOLEAN)

SpecCache == InitCache /\ [][NextCache]_vars

----------------------------------------------------------------------------
(* Two workers on one cache key and a file system that does not fail:
   SpecCacheRace *)

\* the calls of SpecCacheRace: a frame of two bars and a frame of one bar under
\* the same symbol and dates
RaceArgs ==
    [configs |-> {[DefaultDataProcessingConfig EXCEPT !.add_indicators = FALSE]},
     frames |-> {RawFrame(<<0, 1>>, <<10, 12>>, <<1, 4>>, OHLCV),
                 RawFrame(<<0>>, <<12>>, <<4>>, OHLCV)},
     symbols |-> {"BTC"}, start_dates |-> {Some(0)}, end_dates |-> {Some(20)}]

InitCacheRace ==
    /\ NoCallers
    /\ NotifierUnused
    /\ EngineConstructed(DefaultStrategyParams, DefaultBacktestParams)
    /\ RiskConstructed(DefaultRiskParams, 0)
    /\ now = 0
    /\ last_call = NoCall
    /\ cache = EmptyMap
    /\ workers = [w \in {1, 2} |-> Idle]

NextCacheRace ==
    \E w \in {1, 2} :
        \/ ProcessCall(w, RaceArgs)
        \/ CacheExists(w)
        \/ ReadFooter(w, {TRUE})
        \/ ReadData(w, {TRUE})
        \/ Process(w)
        \/ WriteOpen(w, {TRUE})
        \/ WriteData(w, {TRUE})
        \/ WriteFooter(w, {TRUE})

SpecCacheRace == InitCacheRace /\ [][NextCacheRace]_vars

\* both dates are given and the processor caches
Keyed(frame) ==
    frame.start_date.some /\ frame.end_date.some /\ frame.config.cache_processed_data

\* the key (symbol, start day, end day) of a call
DayKey(frame) ==
    <<frame.symbol, frame.start_date.v \div MinutesPerDay,
      frame.end_date.v \div MinutesPerDay>>

\* at the call a complete entry was stored under the key of the call
Stored(frame) ==
    DayKey(frame) \in DOMAIN frame.before /\ Complete(frame.before[DayKey(frame)])

\* what the call computes from its own arguments
FromScratch(frame) ==
    <<processed_data(frame.df, frame.start_date, frame.end_date, frame.config),
      validate_raw_data(frame.df, frame.config)>>

\* C22: with caching enabled and both dates given, a call whose key (symbol,
\* start day, end day) has no stored entry validates, processes and stores the
\* result under that key; a call whose key has a stored entry that it reads
\* returns exactly the stored series with the all-clear validation result,
\* whatever raw frame it was given
C22_SameKeyReturnsStoredSeries ==
    LET Served(frame) ==
            IF Stored(frame)
            THEN ~frame.read_failed =>
                     frame.result.v = <<frame.before[DayKey(frame)].data.v, AllClear>>
            ELSE /\ frame.result.v = FromScratch(frame)
                 /\ DayKey(frame) \in DOMAIN cache
                 /\ Complete(cache[DayKey(frame)])
                 /\ cache[DayKey(frame)].data.v = frame.result.v[1]
    IN  workers[1].pc = "returned" /\ Keyed(workers[1]) => Served(workers[1])

\* a call was served the series stored by an earlier call with another start
\* time or raw frame: it is not the series of its own arguments
C22_Witness ==
    /\ workers[1].pc = "returned"
    /\ Keyed(workers[1])
    /\ Stored(workers[1])
    /\ ~workers[1].read_failed
    /\ ~KeyError(workers[1].df, workers[1].config)
    /\ workers[1].result.v[1] = workers[1].before[DayKey(workers[1])].data.v
    /\ workers[1].result.v[1] # FromScratch(workers[1])[1]

\* the raw frame of the call has a validation issue
RawInvalid(frame) == ~validate_raw_data(frame.df, frame.config).is_valid

\* C23: a call whose raw frame has a validation issue returns (it does not
\* raise), and the validation result it returns is invalid and lists the issues
\* of the raw frame; this for every call of a sequence, also after an earlier
\* call with the same key
C23_IssuesAlwaysReported ==
    LET Reported(frame) ==
            /\ frame.pc = "returned"
            /\ ~frame.result.v[2].is_valid
            /\ frame.result.v[2].issues =
                   validate_raw_data(frame.df, frame.config).issues
    IN  Finished(workers[1]) /\ ~workers[1].write_failed /\ RawInvalid(workers[1])
            => Reported(workers[1])

\* a call that found no readable entry and whose column lookups succeed returns
\* the validation result of its raw frame
C23_MissReportsIssues ==
    (/\ Finished(workers[1])
     /\ ~workers[1].write_failed
     /\ ~KeyError(workers[1].df, workers[1].config)
     /\ Keyed(workers[1]) => ~Stored(workers[1]))
        => /\ workers[1].pc = "returned"
           /\ workers[1].result.v[2] =
                  validate_raw_data(workers[1].df, workers[1].config)

\* a call with an invalid raw frame was served from the cache and told that its
\* data is valid
InvalidServedAsValid ==
    /\ workers[1].pc = "returned"
    /\ RawInvalid(workers[1])
    /\ workers[1].result.v[2] = AllClear

\* a call with a raw frame that lacks a required column raised KeyError
MissingColumnRaised ==
    /\ workers[1].pc = "raised"
    /\ ~workers[1].write_failed
    /\ OHLCV \ workers[1].df.columns # {}

\* C24: a call during which reading the cache entry failed (missing footer,
\* unreadable) or writing it failed still returns the series processed from
\* scratch with the validation result of its raw frame; it does not raise
C24_CacheFailuresNeverFatal ==
    (/\ Finished(workers[1])
     /\ workers[1].read_failed \/ workers[1].write_failed
     /\ ~KeyError(workers[1].df, workers[1].config))
        => /\ workers[1].pc = "returned"
           /\ workers[1].result.v = FromScratch(workers[1])

\* a failed read alone is a cache miss: the call returns what it computes from
\* its own arguments
C24_ReadFailuresFailOpen ==
    (/\ Finished(workers[1])
     /\ workers[1].read_failed
     /\ ~workers[1].write_failed
     /\ ~KeyError(workers[1].df, workers[1].config))
        => /\ workers[1].pc = "returned"
           /\ workers[1].result.v = FromScratch(workers[1])

\* a call raised because writing the cache entry failed
WriteFailureRaised ==
    /\ workers[1].pc = "raised"
    /\ workers[1].write_failed
    /\ ~KeyError(workers[1].df, workers[1].config)

\* a call with a failed read returned
ReadFailureSurvived ==
    workers[1].pc = "returned" /\ workers[1].read_failed

----------------------------------------------------------------------------
(* The steps of the processor applied to frames on their own: SpecSteps.  A
   state holds one application in last_call: the step, its arguments and,
   once the step has run, its result. *)

\* longest frame given to _normalize_data
MaxNormalizeRows == 2

\* frames of bars in any order of open, high, low and close, with volumes 0, 1
\* and 4
NormalizeFrames ==
    UNION {{[columns |-> OHLCV,
             rows |-> [k \in 1..n |-> RawRow(k, bars[k][1], bars[k][2], bars[k][3],
                                             bars[k][4], bars[k][5])]] :
               bars \in [1..n -> {8, 12} \X {8, 12} \X {8, 12} \X {8, 12} \X {0, 1, 4}]} :
           n \in 0..MaxNormalizeRows}

\* the applications of _normalize_data: with and without volume normalization
NormalizeCalls ==
    {[op |-> "normalize_data", df |-> df, config |-> config, result |-> Null] :
        df \in NormalizeFrames,
        config \in {DefaultDataProcessingConfig,
                    [DefaultDataProcessingConfig EXCEPT !.normalize_volume = FALSE]}}

\* the step of last_call runs
Normalize ==
    /\ last_call.op = "normalize_data" /\ ~last_call.result.some
    /\ last_call' = [last_call EXCEPT
                        !.result = Some(normalize_data(last_call.df, last_call.config))]
    /\ UNCHANGED <<engineVars, riskVars, now, intents, dataVars, callers, notifier>>

\* longest frame given to _add_technical_indicators
MaxEnrichRows == 52

\* null-free frames of up to MaxEnrichRows bars a minute apart, with flat or
\* rippling closes, with and without the volume column
EnrichFrames ==
    {RawFrame([k \in 1..n |-> k],
              [k \in 1..n |-> 10 + (k % 3) * ripple],
              [k \in 1..n |-> 1 + (k % 2)], columns) :
        n \in 0..MaxEnrichRows, ripple \in {0, 1}, columns \in {OHLCV, OHLCV \ {"volume"}}}

EnrichCalls ==
    {[op |-> "add_technical_indicators", df |-> df, result |-> Null] : df \in EnrichFrames}

Enrich ==
    /\ last_call.op = "add_technical_indicators" /\ ~last_call.result.some
    /\ last_call' = [last_call EXCEPT
                        !.result = Some(add_technical_indicators(last_call.df))]
    /\ UNCHANGED <<engineVars, riskVars, now, intents, dataVars, callers, notifier>>

\* frames of SpikeRows bars at price 20 but for one bar at 36 or at 4, and a
\* frame of 8 bars whose close is NaN after the first bar
CleanFrames ==
    {RawFrame([k \in 1..SpikeRows |-> k],
              [k \in 1..SpikeRows |-> IF k = at THEN spike ELSE 20],
              [k \in 1..SpikeRows |-> 1], OHLCV) :
        at \in 1..SpikeRows, spike \in {36, 4}}
    \cup {[columns |-> OHLCV,
           rows |-> [k \in 1..8 |->
                        [RawRow(k, 20, 20, 20, 20, 1) EXCEPT
                            !.close = IF k = 1 THEN @ ELSE Null]]]}

\* the applications of _clean_data, with outlier removal on
CleanCalls ==
    {[op |-> "clean_data", df |-> df,
      config |-> [DefaultDataProcessingConfig EXCEPT !.fill_gaps = fill_gaps],
      result |-> Null, again |-> Null] :
        df \in CleanFrames, fill_gaps \in BOOLEAN}

Clean ==
    /\ last_call.op = "clean_data" /\ ~last_call.result.some
    /\ last_call' = [last_call EXCEPT
                        !.result = Some(clean_data(last_call.df, last_call.config))]
    /\ UNCHANGED <<engineVars, riskVars, now, intents, dataVars, callers, notifier>>

\* _clean_data applied to its own result
CleanAgain ==
    /\ last_call.op = "clean_data" /\ last_call.result.some /\ ~last_call.again.some
    /\ last_call' = [last_call EXCEPT
                        !.again = Some(clean_data(last_call.result.v, last_call.config))]
    /\ UNCHANGED <<engineVars, riskVars, now, intents, dataVars, callers, notifier>>

(* _calculate_metrics, drawdown metrics (engine.py lines 252-268), as the
   expressions compute them on an equity curve of positive samples. *)

\* self.equity_curve.expanding().max(): the largest sample up to each bar
expanding_max(curve) ==
    [k \in 1..Len(curve) |->
        CHOOSE m \in {curve[j] : j \in 1..k} : \A j \in 1..k : curve[j] <= m]

\* (self.equity_curve - rolling_max) / rolling_max * 100
drawdowns(curve) ==
    [k \in 1..Len(curve) |->
        The({RMul(RDiv(RInt(curve[k] - peak), RInt(peak)), RInt(100)) :
                peak \in {expanding_max(curve)[k]}})]

\* drawdowns[drawdowns < 0]
negative_drawdowns(curve) == SelectSeq(drawdowns(curve), LAMBDA d : RLt(d, RZero))

\* (drawdowns[drawdowns < 0] >= 0).cumsum(): the group key of each kept bar
group_keys(kept) ==
    [k \in 1..Len(kept) |-> Cardinality({j \in 1..k : RLe(RZero, kept[j])})]

\* .groupby(keys).size().max(), or 0 when no bar has a negative drawdown
max_drawdown_duration(curve) ==
    LET kept == negative_drawdowns(curve)
        keys == group_keys(kept)
        size(key) == Cardinality({k \in 1..Len(kept) : keys[k] = key})
        sizes == {size(keys[k]) : k \in 1..Len(kept)}
    IN  IF Len(kept) > 0 THEN CHOOSE n \in sizes : \A m \in sizes : m <= n ELSE 0

MaxCurveLen == 5

\* the equity samples of the curves the metric is applied to
CurveSamples == {9, 10, 11}

CurveSet == UNION {[1..n -> CurveSamples] : n \in 1..MaxCurveLen}

DrawdownCalls ==
    {[op |-> "max_drawdown_duration", curve |-> curve, result |-> Null] :
        curve \in CurveSet}

Drawdown ==
    /\ last_call.op = "max_drawdown_duration" /\ ~last_call.result.some
    /\ last_call' = [last_call EXCEPT
                        !.result = Some(max_drawdown_duration(last_call.curve))]
    /\ UNCHANGED <<engineVars, riskVars, now, intents, dataVars, callers, notifier>>

\* StrategyParameters(): the defaults of the dataclass, percentages in percent
StrategyParametersDefaults ==
    [short_ema_period |-> 9, long_ema_period |-> 21, take_profit_pct |-> 2,
     stop_loss_pct |-> 1, position_size_pct |-> 1, min_volume |-> 1000,
     max_spread_pct |-> Rat(1, 2)]

\* the whole number that a rational is
Whole(x) == CHOOSE n \in {x.n} : x.d = 1

\* the processed frame as the strategy reads it: the rows in order, the prices
\* of a row (whole numbers in the frames processed here, where no bar is
\* clipped) and its volume as the processor left it; a processed frame has no
\* bid and no ask column
StrategyFrame(df) ==
    [rows |-> <<>> \o [k \in 1..Len(df.rows) |->
                 [close |-> Whole(df.rows[k].close.v), high |-> Whole(df.rows[k].high.v),
                  low |-> Whole(df.rows[k].low.v), volume |-> df.rows[k].volume.v,
                  bid |-> Whole(df.rows[k].close.v), ask |-> Whole(df.rows[k].close.v)]],
     columns |-> df.columns]

\* strategy.generate_signals(data), then strategy.get_trade_signal(signals_data, i)
\* for every bar i of the series
trade_signals(df, p) ==
    The({<<>> \o [k \in 1..Len(df.rows) |-> get_trade_signal(signals_df, p, k - 1)] :
            signals_df \in {generate_signals(df, p)}})

\* the endpoint's path from the raw frame to the signals: process_data without
\* a symbol-dated cache entry (the raw frame is validated and processed), then
\* a MomentumStrategy with the given parameters on the processed frame
pipeline(df, config, p) ==
    IF config.validate_data /\ ~validate_raw_data(df, config).is_valid
    THEN [raised |-> "HTTPException"]
    ELSE The({[data |-> series, signals |-> trade_signals(series, p)] :
                 series \in {StrategyFrame(processed_data(df, Null, Null, config))}})

\* raw frames of 49 to 53 bars a minute apart: closes that ripple over 10, 11
\* and 12 from one of three phases, volumes that alternate between a base volume
\* and its double
PipelineFrames ==
    {RawFrame([k \in 1..n |-> k],
              [k \in 1..n |-> 10 + ((k + phase) % 3)],
              [k \in 1..n |-> base * (1 + (k % 2))], OHLCV) :
        n \in (LongWindow - 1)..(LongWindow + 3), phase \in 0..2,
        base \in {1, 1000, 5000}}

\* the applications of the pipeline: the default processing with and without
\* volume normalization, the default strategy
PipelineCalls ==
    {[op |-> "pipeline", df |-> df, config |-> config,
      params |-> StrategyParametersDefaults, result |-> Null] :
        df \in PipelineFrames,
        config \in {DefaultDataProcessingConfig,
                    [DefaultDataProcessingConfig EXCEPT !.normalize_volume = FALSE]}}

Pipeline ==
    /\ last_call.op = "pipeline" /\ ~last_call.result.some
    /\ last_call' = [last_call EXCEPT
                        !.result = Some(pipeline(last_call.df, last_call.config,
                                                 last_call.params))]
    /\ UNCHANGED <<engineVars, riskVars, now, intents, dataVars, callers, notifier>>

StepCalls ==
    NormalizeCalls \cup EnrichCalls \cup CleanCalls \cup DrawdownCalls \cup PipelineCalls

InitSteps ==
    /\ NoCallers
    /\ NotifierUnused
    /\ EngineConstructed(DefaultStrategyParams, DefaultBacktestParams)
    /\ RiskConstructed(DefaultRiskParams, 0)
    /\ ProcessorUnused
    /\ now = 0
    /\ last_call \in StepCalls

NextSteps == Normalize \/ Enrich \/ Clean \/ CleanAgain \/ Drawdown \/ Pipeline

SpecSteps == InitSteps /\ [][NextSteps]_vars

\* last_call is an application of the step op that has run
Ran(op) == last_call.op = op /\ last_call.result.some

\* C25: after _normalize_data every bar has high >= max(open, close) >=
\* min(open, close) >= low, whatever the order of the four input prices, and,
\* volume normalization being on, its volume in [0, 1], equal to the input volume
\* divided by the largest volume of the frame (unchanged when that is 0); with
\* volume normalization off the volume is the input volume
C25_NormalizedBars ==
    LET Scaled(in, out, volumes) ==
            \E max \in volumes :
                /\ \A v \in volumes : RLe(v, max)
                /\ out.volume.v = IF RLt(RZero, max) THEN RDiv(in.volume.v, max)
                                  ELSE in.volume.v
                /\ RLe(RZero, out.volume.v) /\ RLe(out.volume.v, RInt(1))
        Ordered(out) ==
            /\ RLe(out.open.v, out.high.v) /\ RLe(out.close.v, out.high.v)
            /\ RLe(out.low.v, out.open.v) /\ RLe(out.low.v, out.close.v)
            /\ RLe(out.low.v, out.high.v)
        Holds(df, result, scaling) ==
            /\ Len(result.rows) = Len(df.rows)
            /\ \A k \in 1..Len(df.rows) :
                  /\ IF scaling
                     THEN Scaled(df.rows[k], result.rows[k],
                                 {df.rows[j].volume.v : j \in 1..Len(df.rows)})
                     ELSE result.rows[k].volume = df.rows[k].volume
                  /\ Ordered(result.rows[k])
                  /\ result.rows[k].open = df.rows[k].open
                  /\ result.rows[k].close = df.rows[k].close
    IN  Ran("normalize_data")
            => Holds(last_call.df, last_call.result.v, last_call.config.normalize_volume)

\* a frame with a bar whose high was below its low and whose volume was a
\* fraction of the largest has been normalized
C25_Witness ==
    /\ Ran("normalize_data")
    /\ last_call.config.normalize_volume
    /\ \E k \in 1..Len(last_call.df.rows) :
          /\ RLt(last_call.df.rows[k].high.v, last_call.df.rows[k].low.v)
          /\ RLt(last_call.df.rows[k].high.v, last_call.df.rows[k].close.v)
          /\ last_call.result.v.rows[k].volume.v = Rat(1, 4)

\* the fields that _add_technical_indicators adds to a frame with these columns
DerivedFields(columns) ==
    {"returns", "log_returns", "volatility", "momentum", "sma_10", "sma_20", "sma_50"}
    \cup (IF "volume" \in columns THEN {"volume_ma", "volume_std"} ELSE {})

\* the result holds the rows of df from the 0-based index first onward, in order,
\* each with every derived field set
RowsFrom(first, df, result) ==
    /\ Len(result.rows) = IF Len(df.rows) > first THEN Len(df.rows) - first ELSE 0
    /\ \A k \in 1..Len(result.rows) :
          /\ \A c \in df.columns \cup {"timestamp"} :
                result.rows[k][c] = df.rows[first + k][c]
          /\ \A c \in DerivedFields(df.columns) : result.rows[k][c].some

\* C26: for a null-free frame of n rows, _add_technical_indicators returns
\* exactly n - 50 rows (none when n <= 50), the input rows from index 50 onward
\* in order, none with a null derived field
C26_EnrichDropsFiftyRows ==
    Ran("add_technical_indicators")
        => RowsFrom(LongWindow, last_call.df, last_call.result.v)

\* what _add_technical_indicators returns: the rows from index 49 onward, the
\* first row whose 50-bar average is defined
C26_EnrichDropsFortyNineRows ==
    Ran("add_technical_indicators")
        => RowsFrom(LongWindow - 1, last_call.df, last_call.result.v)

\* a frame of exactly 50 rows came back with one row
FiftyRowsLeaveOne ==
    /\ Ran("add_technical_indicators")
    /\ Len(last_call.df.rows) = LongWindow
    /\ Len(last_call.result.v.rows) = 1

\* _clean_data has been applied to a frame and to its own result
CleanedTwice == last_call.op = "clean_data" /\ last_call.again.some

\* C27: with outlier removal enabled, _clean_data applied to its own result
\* changes nothing: same rows, same open, high, low and close
C27_CleanIdempotent ==
    CleanedTwice => last_call.again.v = last_call.result.v

\* the second pass moved a price that the first pass had clipped
ClippedTwice ==
    /\ CleanedTwice
    /\ \E k \in 1..Len(last_call.df.rows) :
          /\ last_call.result.v.rows[k].close # last_call.df.rows[k].close
          /\ last_call.again.v.rows[k].close # last_call.result.v.rows[k].close

\* the second pass filled a NaN that the first pass had left
FilledTwice ==
    /\ CleanedTwice
    /\ \E k \in 1..Len(last_call.result.v.rows) :
          /\ ~last_call.result.v.rows[k].close.some
          /\ last_call.again.v.rows[k].close.some

\* the series that a call of SpecCacheRace can store
StorableSeries ==
    {processed_data(df, start_date, end_date, config) :
        df \in RaceArgs.frames, start_date \in RaceArgs.start_dates,
        end_date \in RaceArgs.end_dates, config \in RaceArgs.configs}

\* C28: with two workers on the same cache key, every series returned from a
\* cache hit is a complete series that some writer stored, however the steps
\* of a write interleave with the existence check and the read of the other
\* worker
C28_NoPartialRead ==
    \A w \in DOMAIN workers :
        workers[w].pc = "returned" /\ workers[w].hit
            => workers[w].result.v[1] \in StorableSeries

\* a worker returned from a cache hit a series that no call stores: rows that
\* one writer wrote, cut to the row count of the footer of another
TornRead ==
    \E w \in DOMAIN workers :
        /\ workers[w].pc = "returned" /\ workers[w].hit
        /\ workers[w].result.v[1] \notin StorableSeries
        /\ Len(workers[w].result.v[1].rows) = 1

\* the longest stretch of consecutive bars of the curve under its running peak
LongestStretch(curve) ==
    LET peak == expanding_max(curve)
        Under(a, b) == \A k \in a..b : curve[k] < peak[k]
        runs == {n \in 1..Len(curve) :
                    \E a \in 1..(Len(curve) - n + 1) : Under(a, a + n - 1)}
    IN  IF runs = {} THEN 0 ELSE CHOOSE n \in runs : \A m \in runs : m <= n

\* the number of bars of the curve under its running peak
BarsUnderPeak(curve) ==
    Cardinality({k \in 1..Len(curve) : curve[k] < expanding_max(curve)[k]})

\* C29: for every equity curve max_drawdown_duration is the length of the
\* longest run of consecutive bars with a negative drawdown; two stretches
\* separated by a bar at a new peak are counted separately, not summed
C29_DurationIsLongestStretch ==
    Ran("max_drawdown_duration") =>
        last_call.result.v = LongestStretch(last_call.curve)

\* what the grouping computes: every kept bar has the key 0, so the one group
\* holds every bar with a negative drawdown, stretches summed
C29_DurationIsBarsUnderPeak ==
    Ran("max_drawdown_duration") =>
        last_call.result.v = BarsUnderPeak(last_call.curve)

\* two stretches separated by a bar at a new peak were summed
StretchesSummed ==
    /\ Ran("max_drawdown_duration")
    /\ last_call.curve = <<10, 9, 11, 10, 10>>
    /\ last_call.result.v = 3
    /\ LongestStretch(last_call.curve) = 2

\* the search has ended with the exception of a trial
TrialRaised == search.pc = "raised" /\ search.param_dict # EmptyMap

\* the combinations the search has not taken up
Untried == {search.combos[k] : k \in 1..Len(search.combos)}

\* the run of the combination alone, on a fresh engine, returns results
RunsAlone(param_dict) ==
    /\ DOMAIN param_dict \subseteq StrategyFields
    /\ ~run_backtest(search.data, StrategyParameters(param_dict), bparams, rparams,
                     RiskState(<<>>, EmptyMap, 0, 0), NoPosition, 0).raised

\* C30: a search survives a failing trial: it never ends with the exception of
\* one combination's run, going on to the remaining combinations and returning
\* the best of the trials that succeeded; an error ends it only before any
\* combination has been taken up
C30_SearchSurvivesFailingTrial ==
    search.pc = "raised" =>
        /\ search.param_dict = EmptyMap
        /\ search.trials = <<>>
        /\ search.combos = Product(search.parameter_ranges)

\* what the loop does: the first run that raises ends the search on the spot,
\* the trials recorded so far discarded and the remaining combinations left
C30_FirstFailureEndsSearch ==
    [][(search.pc = "run" /\ pc = "raised" /\ search' # search) =>
            /\ search'.pc = "raised"
            /\ search'.combos = search.combos
            /\ search'.trials = search.trials
            /\ last_call' = [op |-> "optimize_strategy"]]_vars

\* a search ended by the second trial's exception after a first trial that
\* returned results
SucceededTrialDiscarded == TrialRaised /\ search.trials # <<>>

\* a search ended by a trial's exception with a combination left whose run
\* alone returns results
ValidCombinationNeverRun == TrialRaised /\ \E c \in Untried : RunsAlone(c)

\* the decision of the daily-drawdown and total-exposure checks on the state of
\* the gate
LimitsAlone ==
    IF Abs(daily_pnl) > rparams.max_daily_drawdown
    THEN [ok |-> FALSE, reason |-> "Daily drawdown limit exceeded"]
    ELSE IF TotalExposure(open_positions) > rparams.max_position_size
    THEN [ok |-> FALSE, reason |-> "Total exposure limit exceeded"]
    ELSE [ok |-> TRUE, reason |-> "Within risk limits"]

\* the exchange client of the last call has returned a volatility over the threshold
VolatilityOver ==
    /\ last_call.exchange_client.client
    /\ ~last_call.exchange_client.raises
    /\ last_call.exchange_client.volatility > rparams.volatility_threshold

\* C31: without an exchange client, or with one whose call raises,
\* check_risk_limits returns the decision of the drawdown and exposure checks
\* alone and does not raise; with one that returns a volatility over the
\* threshold while those checks pass it returns unsafe, "Market volatility too
\* high"; with a volatility up to the threshold it returns their decision
C31_OracleDegradesOwnCheck ==
    last_call.op = "check_risk_limits" =>
        last_call.result =
            IF VolatilityOver /\ LimitsAlone.ok
            THEN [ok |-> FALSE, reason |-> "Market volatility too high"]
            ELSE LimitsAlone

\* a failing client with the other checks passing, answered "Within risk limits"
C31_Witness ==
    /\ last_call.op = "check_risk_limits"
    /\ last_call.exchange_client = ClientRaises
    /\ open_positions # EmptyMap
    /\ last_call.result = [ok |-> TRUE, reason |-> "Within risk limits"]

\* a client over the threshold answered "Market volatility too high"
VolatilityRefused ==
    /\ last_call.op = "check_risk_limits"
    /\ VolatilityOver
    /\ last_call.result.reason = "Market volatility too high"

\* a client over the threshold while the drawdown check fails: the drawdown wins
DrawdownBeforeVolatility ==
    /\ last_call.op = "check_risk_limits"
    /\ VolatilityOver
    /\ last_call.result.reason = "Daily drawdown limit exceeded"

\* the exponential moving average of the closes at index as a rational:
\* the first close, then alpha * close + (1 - alpha) * previous, alpha = 2 / (period + 1)
RECURSIVE Ema(_, _, _)
Ema(df, period, index) ==
    IF index = 0
    THEN RInt(Row(df, 0).close)
    ELSE RAdd(RMul(Rat(2, period + 1), RInt(Row(df, index).close)),
              RMul(Rat(period - 1, period + 1), Ema(df, period, index - 1)))

\* +1, -1 or 0 as the short average is above, below or at the long one
SignOf(df, p, index) ==
    IF RLt(Ema(df, p.long_ema_period, index), Ema(df, p.short_ema_period, index)) THEN 1
    ELSE IF RLt(Ema(df, p.short_ema_period, index), Ema(df, p.long_ema_period, index)) THEN -1
    ELSE 0

\* C32: generate_signals sets the trend sign of each bar to +1, -1 or 0 as the
\* short EMA is above, below or at the long EMA, and the crossover flag of bar
\* i >= 1 to sign[i] - sign[i-1]: the flag lies in -2..2 and is non-zero exactly
\* on the bars whose sign differs from the previous bar's; bar 0 has no flag and
\* never yields an intent
C32_FlagIsSignDifference ==
    signals_data # NoData =>
        /\ \A k \in 0..(Len(signals_data.rows) - 1) :
              /\ Row(signals_data, k).signal = SignOf(data, sparams, k)
              /\ k >= 1 =>
                    /\ ~Row(signals_data, k).signal_change.nan
                    /\ Row(signals_data, k).signal_change.v =
                           SignOf(data, sparams, k) - SignOf(data, sparams, k - 1)
                    /\ Row(signals_data, k).signal_change.v \in -2..2
                    /\ Row(signals_data, k).signal_change.v # 0
                           <=> Row(signals_data, k).signal # Row(signals_data, k - 1).signal
        /\ Row(signals_data, 0).signal_change.nan
        /\ Len(intents) >= 1 => intents[1] = NoSignal

\* a scanned series whose sign goes from 0 on bar 0 to +1 and straight to -1
\* (flag -2), with an intent at a later bar and none at bar 0
C32_Witness ==
    /\ ScanComplete
    /\ Len(signals_data.rows) >= 3
    /\ Row(signals_data, 0).signal = 0
    /\ Row(signals_data, 1).signal = 1
    /\ Row(signals_data, 2).signal_change.v = -2
    /\ intents[1] = NoSignal
    /\ intents[3] # NoSignal

\* the sum of the realized P&L recorded on the trades of the ledger
RECURSIVE LedgerPnl(_)
LedgerPnl(ledger) ==
    IF ledger = <<>> THEN RZero
    ELSE RAdd(Head(ledger).realized_pnl.v, LedgerPnl(Tail(ledger)))

\* the sum of the amounts deducted when the trades of the ledger were opened
RECURSIVE LedgerCost(_)
LedgerCost(ledger) ==
    IF ledger = <<>> THEN RZero
    ELSE RAdd(EntryCost(bparams, Head(ledger)), LedgerCost(Tail(ledger)))

\* C33: capital accounting is consistent with the ledger: each exit credits the
\* amount deducted at the entry plus the realized P&L of the closed trade, so
\* when run_backtest returns, flat, the available capital is the initial
\* capital plus the sum of the realized P&L over the ledger
C33_CapitalMatchesLedger ==
    pc = "done" =>
        available_capital = RAdd(RInt(bparams.initial_capital), LedgerPnl(trades))

\* what the code leaves: the close after the loop (lines 363-370) credits
\* nothing, so the capital at the return is the initial capital less the cost
\* of every trade of the ledger
C33_ForcedCloseCreditsNothing ==
    pc = "done" =>
        available_capital = RSub(RInt(bparams.initial_capital), LedgerCost(trades))

\* a run has returned with one trade, opened on the last bar and closed after
\* the loop, its cost missing from the capital and its P&L not the difference
TradeNeverCredited ==
    /\ pc = "done"
    /\ Len(trades) = 1
    /\ trades[1].entry_time = Len(signals_data.rows) - 1
    /\ RLt(available_capital, RInt(bparams.initial_capital))
    /\ available_capital # RAdd(RInt(bparams.initial_capital), trades[1].realized_pnl.v)

----------------------------------------------------------------------------
(* run_backtest under position sizes up to the whole capital and under fees and
   slippage from 0 to nearly 1 *)

\* StrategyParameters with position_size_pct up to 100
CapitalStrategyParams ==
    {[DefaultStrategyParams EXCEPT !.position_size_pct = pct] : pct \in {10, 50, 100}}

\* BacktestParameters with trading_fees and slippage of 0 (disabled), 1/2 and 9/10
CapitalBacktestParams ==
    {[initial_capital |-> 1000,
      trading_fees |-> IF fee = 0 THEN Rat(1, 100) ELSE Rat(fee, 10),
      slippage |-> IF slip = 0 THEN Rat(1, 100) ELSE Rat(slip, 10),
      include_fees |-> fee # 0, include_slippage |-> slip # 0,
      enable_fractional |-> frac] :
        fee \in {0, 5, 9}, slip \in {0, 5, 9}, frac \in BOOLEAN}

InitCapital ==
    /\ NoCallers
    /\ NotifierUnused
    /\ ProcessorUnused
    /\ \E sp \in CapitalStrategyParams, bp \in CapitalBacktestParams :
          EngineConstructed(sp, bp)
    /\ RiskConstructed(DefaultRiskParams, 0)
    /\ now = 0
    /\ last_call = NoCall

NextCapital == RunStart \/ LoopBar \/ AfterLoop

SpecCapital == InitCapital /\ [][NextCapital]_vars

WholeCapitalDeducted == opened = 1 /\ pc = "loop" /\ available_capital = RZero

----------------------------------------------------------------------------
(* The RiskManager over more than two days: its public methods called in any
   order while the clock advances past a first daily reset and the day after it *)

MaxWindowClock == 5

\* datetime.now() moves on by 12 hours, up to MaxWindowClock ticks
WindowTick ==
    /\ now < MaxWindowClock
    /\ now' = now + 1
    /\ UNCHANGED <<engineVars, sparams, bparams, strategy_position, riskVars, last_call,
                   intents, dataVars, callers, notifier>>

\* open updates of one trade id, without a timestamp key of their own
WindowUpdatePosition ==
    /\ Len(trade_history) < MaxUpdates
    /\ \E trade_id \in {"t1"}, position_update \in {PositionUpdate("open", Null, Null)} :
        /\ SetRiskState(update_position(CurrentRiskState, trade_id, position_update, now))
        /\ last_call' = [op |-> "update_position", trade_id |-> trade_id,
                         position_update |-> position_update]
    /\ UNCHANGED <<engineVars, sparams, bparams, strategy_position, rparams, now, intents,
                   dataVars, callers, notifier>>

InitWindow ==
    /\ NoCallers
    /\ NotifierUnused
    /\ ProcessorUnused
    /\ EngineConstructed(DefaultStrategyParams, DefaultBacktestParams)
    /\ \E rp \in RiskParamSet : RiskConstructed(rp, 0)
    /\ now = 0
    /\ last_call = NoCall

NextWindow == WindowTick \/ WindowUpdatePosition \/ RiskValidate \/ RiskGetMetrics

SpecWindow == InitWindow /\ [][NextWindow]_vars

\* C35: the daily trade count is a rolling 24h window: right after a
\* validate_trade or get_risk_metrics call at time t every entry held in the
\* trade history has a timestamp later than t - 24h
C35_RollingWindow ==
    [][(last_call'.op \in {"validate_trade", "get_risk_metrics"} /\ now' = now) =>
          \A k \in 1..Len(trade_history') :
              trade_history'[k].timestamp > now - DayTicks]_vars

\* what the reset gives: the entries are cut to the last 24h only by a call made
\* more than a day after the last reset
C35_WindowAtReset ==
    [][(/\ last_call'.op \in {"validate_trade", "get_risk_metrics"}
        /\ now' = now
        /\ now - last_reset > DayTicks) =>
          \A k \in 1..Len(trade_history') :
              trade_history'[k].timestamp > now - DayTicks]_vars

\* a trade refused for the daily limit, all entries counted against it being 36
\* hours old: the reset fired a day ago and does not fire again yet
RefusedOnStaleEntries ==
    /\ last_call.op = "validate_trade"
    /\ last_call.result.reason = "Maximum daily trades exceeded"
    /\ last_reset > 0
    /\ now - last_reset = DayTicks
    /\ trade_history # <<>>
    /\ \A k \in 1..Len(trade_history) : now - trade_history[k].timestamp > DayTicks

----------------------------------------------------------------------------
(* One RiskManager shared by concurrent callers.  A caller asks validate_trade
   and, once accepted, registers the new position with update_position; the
   two calls are separate steps, and nothing in the RiskManager holds anything
   between them. *)

Callers == {1, 2}

\* the trade a caller proposes: it passes the size, stop and reward:risk checks
ProposedTrade == [size |-> 100, price |-> 100, stop_loss |-> 90, take_profit |-> 115]

\* caller c calls validate_trade; accepted, it goes on to register the position
CallerValidate(c) ==
    /\ callers[c].pc = "idle"
    /\ \E rs \in {reset_daily_metrics(CurrentRiskState, now)} :
       \E v \in {validate_trade(rs, rparams, RInt(ProposedTrade.size),
                                RInt(ProposedTrade.price), RInt(ProposedTrade.stop_loss),
                                RInt(ProposedTrade.take_profit))} :
           /\ SetRiskState(rs)
           /\ callers' = [callers EXCEPT ![c].pc = IF v.ok THEN "accepted" ELSE "idle"]
           /\ last_call' = [op |-> "validate_trade", caller |-> c, result |-> v]
    /\ UNCHANGED <<engineVars, sparams, bparams, strategy_position, rparams, now, intents,
                   dataVars, notifier>>

\* caller c calls update_position for the position its accepted validation was for
CallerRegister(c) ==
    /\ callers[c].pc = "accepted"
    /\ \E trade_id \in {<<c, callers[c].registered + 1>>} :
        /\ SetRiskState(update_position(CurrentRiskState, trade_id,
                                        PositionUpdate("open", Null, Null), now))
        /\ last_call' = [op |-> "update_position", caller |-> c, trade_id |-> trade_id]
    /\ callers' = [callers EXCEPT ![c].pc = "idle", ![c].registered = @ + 1]
    /\ UNCHANGED <<engineVars, sparams, bparams, strategy_position, rparams, now, intents,
                   dataVars, notifier>>

\* caller c reports one of its positions closed
CallerClose(c) ==
    /\ callers[c].pc = "idle"
    /\ Len(trade_history) < MaxUpdates
    /\ \E trade_id \in {id \in DOMAIN open_positions : id[1] = c} :
        /\ SetRiskState(update_position(CurrentRiskState, trade_id,
                                        PositionUpdate("closed", Some(3), Null), now))
        /\ last_call' = [op |-> "update_position", caller |-> c, trade_id |-> trade_id]
    /\ UNCHANGED <<engineVars, sparams, bparams, strategy_position, rparams, now, intents,
                   dataVars, callers, notifier>>

InitCallers ==
    /\ NotifierUnused
    /\ ProcessorUnused
    /\ EngineConstructed(DefaultStrategyParams, DefaultBacktestParams)
    /\ \E rp \in RiskParamSet : RiskConstructed(rp, 0)
    /\ callers = [c \in Callers |-> [pc |-> "idle", registered |-> 0]]
    /\ now = 0
    /\ last_call = NoCall

NextCallers ==
    \/ Tick
    \/ \E c \in Callers : CallerValidate(c) \/ CallerRegister(c) \/ CallerClose(c)

SpecCallers == InitCallers /\ [][NextCallers]_vars

\* C36: when every caller registers a new position only after its own
\* validate_trade was accepted, then under every interleaving of the callers'
\* validate_trade and update_position steps the open-position map never holds
\* more than max_concurrent_trades entries
C36_ConcurrentLimitHolds ==
    Cardinality(DOMAIN open_positions) <= rparams.max_concurrent_trades

\* what the gate does guarantee: each caller can pass the check once on the same
\* count, so the map exceeds the limit by at most one entry per further caller
C36_LimitPlusOtherCallers ==
    Cardinality(DOMAIN open_positions)
        <= rparams.max_concurrent_trades + Cardinality(Callers) - 1

\* both callers were accepted on one open position and both registered: three
\* positions are open under a limit of two
BothAcceptedOnOneSlot ==
    /\ Cardinality(DOMAIN open_positions) = 3
    /\ rparams.max_concurrent_trades = 2
    /\ \A c \in Callers : callers[c].registered >= 1

\* the trade ids with an entry in the trade history
TradesInHistory == {trade_history[k].trade_id : k \in 1..Len(trade_history)}

\* C37: the trades-today figure counts trades, not updates: daily_trades as
\* get_risk_metrics reports it is the number of distinct trade ids updated in
\* the window, and trades_remaining_today is never negative
C37_DailyTradesCountsTrades ==
    last_call.op = "get_risk_metrics" =>
        /\ last_call.result.daily_trades = Cardinality(TradesInHistory)
        /\ last_call.result.trades_remaining_today >= 0

\* what the figure is: the number of update_position calls in the history, and
\* the remainder its difference from the limit, whatever the sign
C37_DailyTradesCountsUpdates ==
    last_call.op = "get_risk_metrics" =>
        /\ last_call.result.daily_trades = Len(trade_history)
        /\ last_call.result.trades_remaining_today
               = rparams.max_trades_per_day - Len(trade_history)

\* one trade, opened and closed, reported as two trades of the day
OneTradeCountedTwice ==
    /\ last_call.op = "get_risk_metrics"
    /\ TradesInHistory = {"t1"}
    /\ Len(trade_history) = 2
    /\ trade_history[1].status = "open" /\ trade_history[2].status = "closed"
    /\ last_call.result.daily_trades = 2

\* three updates under a limit of two: a negative number of trades remaining
NegativeTradesRemaining ==
    /\ last_call.op = "get_risk_metrics"
    /\ last_call.result.trades_remaining_today < 0

\* the bar at index >= 1 is a crossover bar of the series: the sign of short EMA
\* minus long EMA differs from the previous bar's
CrossoverBar(df, p, index) == SignOf(df, p, index) # SignOf(df, p, index - 1)

\* the pipeline ran with the default processing and returned a series
DefaultPipelineRan ==
    /\ Ran("pipeline")
    /\ last_call.config = DefaultDataProcessingConfig
    /\ last_call.params = StrategyParametersDefaults
    /\ "data" \in DOMAIN last_call.result.v

\* C38: the default pipeline can trade: on a series that process_data produced
\* with the default configuration, the strategy with the default parameters
\* returns an intent at every EMA crossover bar
C38_DefaultPipelineTrades ==
    DefaultPipelineRan =>
        \A index \in 1..(Len(last_call.result.v.data.rows) - 1) :
            CrossoverBar(last_call.result.v.data, last_call.params, index)
                => last_call.result.v.signals[index + 1] # NoSignal

\* what the default pipeline does: every volume of the processed series is at
\* most 1, below the default min_volume, and no bar yields an intent
C38_DefaultPipelineNeverTrades ==
    DefaultPipelineRan =>
        \A k \in 1..Len(last_call.result.v.data.rows) :
            /\ RLe(last_call.result.v.data.rows[k].volume, RInt(1))
            /\ RLt(last_call.result.v.data.rows[k].volume, RInt(last_call.params.min_volume))
            /\ last_call.result.v.signals[k] = NoSignal

\* a crossover bar whose raw volume was 5000 or more, its processed volume at
\* most 1, and no intent on it
CrossoverWithoutIntent ==
    /\ DefaultPipelineRan
    /\ \A k \in 1..Len(last_call.df.rows) : RLe(RInt(5000), last_call.df.rows[k].volume.v)
    /\ \E index \in 1..(Len(last_call.result.v.data.rows) - 1) :
          /\ CrossoverBar(last_call.result.v.data, last_call.params, index)
          /\ last_call.result.v.signals[index + 1] = NoSignal

\* with volume normalization off, the same strategy returns an intent at a
\* crossover bar
UnnormalizedPipelineTrades ==
    /\ Ran("pipeline")
    /\ ~last_call.config.normalize_volume
    /\ "data" \in DOMAIN last_call.result.v
    /\ \E index \in 1..(Len(last_call.result.v.data.rows) - 1) :
          /\ CrossoverBar(last_call.result.v.data, last_call.params, index)
          /\ last_call.result.v.signals[index + 1] # NoSignal

----------------------------------------------------------------------------
(* optimize_strategy on an engine whose strategy was configured: SpecTunedSearch *)

\* the parameters of a strategy configured away from the defaults of the
\* dataclass in two fields that no grid names
TunedStrategyParams ==
    [DefaultStrategyParams EXCEPT !.stop_loss_pct = 5, !.position_size_pct = 50]

\* BacktestingEngine(strategy=MomentumStrategy(TunedStrategyParams), parameters=bp)
InitTunedSearch ==
    /\ NoCallers
    /\ NotifierUnused
    /\ ProcessorUnused
    /\ \E bp \in RerunBacktestParams : EngineConstructed(TunedStrategyParams, bp)
    /\ RiskConstructed(DefaultRiskParams, 0)
    /\ now = 0
    /\ last_call = NoCall

NextTunedSearch ==
    SearchStart \/ TrialStart \/ LoopBar \/ AfterLoop \/ TrialEnd \/ SearchReturn \/ Tick

SpecTunedSearch == InitTunedSearch /\ [][NextTunedSearch]_vars

\* the keys of the grid of the search
GridKeys == {search.parameter_ranges[n].key : n \in 1..Len(search.parameter_ranges)}

\* a trial of the search is running, or has just ended
InTrial == search.pc = "run"

\* C39: the search varies only the grid's parameters: in every trial each
\* strategy parameter that is no key of the grid keeps the value configured on
\* the engine's strategy before the search, and after the search returns the
\* strategy's parameters equal the best parameters on every key of the grid
C39_SearchVariesOnlyGridKeys ==
    /\ InTrial =>
          \A field \in StrategyFields \ GridKeys : sparams[field] = TunedStrategyParams[field]
    /\ SearchReturned =>
          \A key \in GridKeys :
              /\ key \in DOMAIN last_call.result[1]
              /\ sparams[key] = last_call.result[1][key]

\* what a trial runs with, and what the search leaves behind: the dataclass
\* built from the combination alone, every other field at the default of the
\* dataclass; the strategy keeps the parameters of the last combination tried
C39_TrialsRebuildFromDefaults ==
    /\ InTrial =>
          /\ sparams = StrategyParameters(search.param_dict)
          /\ \A field \in StrategyFields \ GridKeys :
                sparams[field] = DefaultStrategyParams[field]
    /\ search.pc = "returned" =>
          sparams = IF search.trials = <<>> THEN TunedStrategyParams
                    ELSE StrategyParameters(search.trials[Len(search.trials)].params)

\* a trial that runs with the default stop where the strategy was configured
\* with another, the grid naming the take-profit only
ConfiguredValueLost ==
    /\ InTrial
    /\ GridKeys = {"take_profit_pct"}
    /\ sparams.stop_loss_pct # TunedStrategyParams.stop_loss_pct
    /\ sparams.stop_loss_pct = DefaultStrategyParams.stop_loss_pct

\* after the search the strategy differs from the configured one in a field the
\* grid did not name
ConfiguredValueNotRestored ==
    /\ SearchReturned
    /\ \E field \in StrategyFields \ GridKeys : sparams[field] # TunedStrategyParams[field]

----------------------------------------------------------------------------
(* NotificationService: SpecNotify.  One service, its send_notification called
   again and again; each call runs to its end before the next, and the clock
   of this specification ticks in half minutes between the calls. *)

\* timedelta(minutes=1), in ticks
MinuteTicks == 2

\* the last tick of the clock
MaxNotifyClock == 4

\* the most messages the Twilio client is handed
MaxSends == 3

\* NotificationService(rate_limit=..., cooldown_period=...) after __init__: no
\* message in the history, no key in the cache; sent is the messages the Twilio
\* client has accepted, oldest first
NotificationService(rate_limit, cooldown_period) ==
    [constructed |-> TRUE, rate_limit |-> rate_limit, cooldown_period |-> cooldown_period,
     message_history |-> <<>>, notification_cache |-> EmptyMap, sent |-> <<>>]

\* _check_rate_limit(): the history is replaced by its entries younger than a
\* minute; True when fewer than rate_limit remain
check_rate_limit(ns, current_time) ==
    LET kept == SelectSeq(ns.message_history,
                          LAMBDA time : time > current_time - MinuteTicks)
    IN  [ns |-> [ns EXCEPT !.message_history = kept], ok |-> Len(kept) < ns.rate_limit]

\* _check_cooldown(message_key): False when the key was recorded less than
\* cooldown_period ago
check_cooldown(ns, message_key, current_time) ==
    ~(/\ message_key \in DOMAIN ns.notification_cache
      /\ current_time - ns.notification_cache[message_key] < ns.cooldown_period)

\* bool(message_key): None and the empty string are falsy
Truthy(message_key) == message_key.some /\ message_key.v # ""

\* what send_notification returns or raises
Sent(value) == [raised |-> FALSE, value |-> value]
HTTPException == [raised |-> TRUE, exception |-> "HTTPException"]

\* what "await self.client.messages.create(...)" of _send_sms does: create of
\* twilio.rest.Client, the client that __init__ builds, posts the message and
\* returns the message, which await refuses with a TypeError ("returned"); it
\* raises TwilioRestException when Twilio refuses the message ("refused"); a
\* client whose create is a coroutine function posts the message and the await
\* yields it ("awaited")
ClientOutcomes == {"returned", "refused", "awaited"}

\* send_notification(to_number, message, priority, message_key) at current_time
\* with the given outcome of the client's create.  Every exception of _send_sms
\* reaches the except clause of send_notification: False, or HTTPException for
\* a CRITICAL message
send_notification(ns, current_time, priority, message_key, outcome) ==
    LET limited == IF priority # "critical" THEN check_rate_limit(ns, current_time)
                   ELSE [ns |-> ns, ok |-> TRUE]
        Posted(service, recorded) ==
            [service EXCEPT !.sent = Append(@, [time |-> current_time,
                                                priority |-> priority,
                                                message_key |-> message_key,
                                                recorded |-> recorded])]
        failed == IF priority = "critical" THEN HTTPException ELSE Sent(FALSE)
    IN  IF ~limited.ok
        THEN [ns |-> limited.ns, result |-> Sent(FALSE)]
        ELSE IF /\ Truthy(message_key) /\ priority # "critical"
                /\ ~check_cooldown(limited.ns, message_key.v, current_time)
        THEN [ns |-> limited.ns, result |-> Sent(FALSE)]
        ELSE IF outcome = "refused"
        THEN [ns |-> limited.ns, result |-> failed]
        ELSE IF outcome = "returned"
        THEN [ns |-> Posted(limited.ns, FALSE), result |-> failed]
        ELSE [ns |-> [Posted(limited.ns, TRUE) EXCEPT
                         !.message_history = Append(@, current_time),
                         !.notification_cache =
                             IF Truthy(message_key)
                             THEN SetKey(@, message_key.v, current_time) ELSE @],
              result |-> Sent(TRUE)]

\* NotificationPriority, one level standing for LOW, MEDIUM and HIGH
Priorities == {"medium", "critical"}

\* message_key: None, the empty string, or a key as the notify_ methods build it
MessageKeys == {Null, Some(""), Some("risk_drawdown")}

\* rate_limit messages a minute, and a cooldown_period of three ticks
NotifierParams == {1, 2} \X {3}

InitNotify ==
    /\ NoCallers
    /\ ProcessorUnused
    /\ EngineConstructed(DefaultStrategyParams, DefaultBacktestParams)
    /\ RiskConstructed(DefaultRiskParams, 0)
    /\ \E np \in NotifierParams : notifier = NotificationService(np[1], np[2])
    /\ now = 0
    /\ last_call = NoCall

\* await service.send_notification(to_number, message, priority, message_key)
NotifySend ==
    /\ notifier.constructed
    /\ Len(notifier.sent) < MaxSends
    /\ \E priority \in Priorities, message_key \in MessageKeys, outcome \in ClientOutcomes :
          \E r \in {send_notification(notifier, now, priority, message_key, outcome)} :
              /\ notifier' = r.ns
              /\ last_call' = [op |-> "send_notification", time |-> now,
                               priority |-> priority, message_key |-> message_key,
                               outcome |-> outcome, before |-> notifier,
                               result |-> r.result]
    /\ UNCHANGED <<engineVars, sparams, bparams, strategy_position, riskVars, now, intents,
                   dataVars, callers>>

\* half a minute passes
NotifyTick ==
    /\ now < MaxNotifyClock
    /\ now' = now + 1
    /\ UNCHANGED <<engineVars, sparams, bparams, strategy_position, riskVars, last_call,
                   intents, dataVars, callers, notifier>>

NextNotify == NotifySend \/ NotifyTick

SpecNotify == InitNotify /\ [][NextNotify]_vars

----------------------------------------------------------------------------
(* Properties of the NotificationService *)

\* the last call was send_notification
SendCalled == last_call.op = "send_notification"

\* the last call returned True
SendSucceeded == SendCalled /\ last_call.result = Sent(TRUE)

\* the last call handed its message to Twilio, which sent it
MessagePosted == SendCalled /\ Len(notifier.sent) = Len(last_call.before.sent) + 1

\* the number of messages, of any priority, that Twilio sent in the minute
\* before the last call
SentInMinuteBefore ==
    Cardinality({k \in 1..Len(last_call.before.sent) :
                    last_call.before.sent[k].time > last_call.time - MinuteTicks})

\* no message with the key of the last call was sent within the cooldown period
\* before it
KeyCooledDown ==
    \A k \in 1..Len(last_call.before.sent) :
        last_call.before.sent[k].message_key = last_call.message_key
            => last_call.time - last_call.before.sent[k].time
                   >= last_call.before.cooldown_period

\* the history before the last call without its entries a minute old or older
YoungHistory ==
    SelectSeq(last_call.before.message_history,
              LAMBDA time : last_call.time - time < MinuteTicks)

\* the message of the last call is recorded: in the history, and under its key
\* in the cooldown map
Recorded ==
    /\ notifier.message_history # <<>>
    /\ notifier.message_history[Len(notifier.message_history)] = last_call.time
    /\ last_call.message_key.some
          => /\ last_call.message_key.v \in DOMAIN notifier.notification_cache
             /\ notifier.notification_cache[last_call.message_key.v] = last_call.time

\* C40: over any sequence of send_notification calls a non-CRITICAL message is
\* sent only if fewer than rate_limit messages of any priority were sent in the
\* preceding minute and, when it carries a message key, no message with that key
\* was sent within the preceding cooldown period; a rejected or failed send
\* changes neither the message history nor the cooldown map; CRITICAL messages
\* bypass both checks but are recorded in both
C40_LimitsHold ==
    SendCalled =>
        /\ MessagePosted /\ last_call.priority # "critical" =>
              /\ SentInMinuteBefore < last_call.before.rate_limit
              /\ last_call.message_key.some => KeyCooledDown
        /\ ~SendSucceeded =>
              /\ notifier.message_history = last_call.before.message_history
              /\ notifier.notification_cache = last_call.before.notification_cache
        /\ MessagePosted /\ last_call.priority = "critical" => Recorded

\* every message that Twilio sent so far was sent by a client whose create
\* could be awaited
EveryCreateAwaited ==
    /\ \A k \in 1..Len(notifier.sent) : notifier.sent[k].recorded
    /\ SendCalled => last_call.outcome # "returned"

\* what holds of the code: with the client that __init__ builds no call returns
\* True and nothing is ever recorded; while every create could be awaited, the
\* rate limit holds, the cooldown holds for keys that are not empty, a send
\* that is rejected or fails adds nothing to the history (a non-CRITICAL one
\* drops its entries a minute old or older), and every message sent is recorded
C40_LimitsHoldWhileAwaited ==
    /\ SendCalled /\ last_call.outcome = "returned" =>
          /\ ~SendSucceeded
          /\ notifier.notification_cache = last_call.before.notification_cache
          /\ Len(notifier.message_history) <= Len(last_call.before.message_history)
    /\ SendCalled /\ EveryCreateAwaited =>
          /\ MessagePosted /\ last_call.priority # "critical" =>
                /\ SentInMinuteBefore < last_call.before.rate_limit
                /\ Truthy(last_call.message_key) => KeyCooledDown
          /\ ~SendSucceeded =>
                /\ notifier.message_history =
                       IF last_call.priority = "critical"
                       THEN last_call.before.message_history ELSE YoungHistory
                /\ notifier.notification_cache = last_call.before.notification_cache
                /\ notifier.sent = last_call.before.sent
          /\ last_call.priority = "critical" /\ last_call.outcome = "awaited"
                => SendSucceeded
          /\ SendSucceeded <=> MessagePosted
          /\ MessagePosted =>
                /\ notifier.message_history[Len(notifier.message_history)]
                       = last_call.time
                /\ Truthy(last_call.message_key) => Recorded

\* with a rate limit of one message a minute, a second non-CRITICAL message
\* sent by Twilio in the same half minute as the first, neither in the history
SentOverTheLimit ==
    /\ MessagePosted /\ last_call.priority # "critical"
    /\ notifier.rate_limit = 1
    /\ SentInMinuteBefore >= 1
    /\ last_call.before.sent[1].priority # "critical"
    /\ notifier.message_history = <<>>

\* a keyed message sent twice within one cooldown period
KeySentInCooldown ==
    /\ MessagePosted /\ last_call.priority # "critical"
    /\ Truthy(last_call.message_key)
    /\ ~KeyCooledDown

\* a rejected send that shortened the history, every create so far awaited
RejectedSendPrunedHistory ==
    /\ SendCalled /\ ~SendSucceeded /\ EveryCreateAwaited
    /\ notifier.message_history # last_call.before.message_history

\* two messages with the empty key sent within one cooldown period, every create
\* awaited
EmptyKeySentInCooldown ==
    /\ SendSucceeded /\ EveryCreateAwaited /\ last_call.priority # "critical"
    /\ last_call.message_key = Some("")
    /\ ~KeyCooledDown

\* a keyed message refused in its cooldown, the rate limit having room, after a
\* CRITICAL message was sent over the limit; every create awaited
CooldownRefusedAfterCritical ==
    /\ SendCalled /\ ~SendSucceeded /\ EveryCreateAwaited
    /\ last_call.priority # "critical" /\ Truthy(last_call.message_key)
    /\ ~KeyCooledDown
    /\ Len(notifier.message_history) < notifier.rate_limit
    /\ \E k \in 1..Len(notifier.sent) :
          /\ notifier.sent[k].priority = "critical"
          /\ k > notifier.rate_limit
          /\ notifier.sent[k].time = notifier.sent[1].time

====
